---- MODULE Spec2Model ----
(***************************************************************************)
(* uRTCLib: DS3231 / DS3232 real-time-clock driver.                        *)
(*                                                                         *)
(* Several state machines share this module:                               *)
(*   SpecCal     the DateTime / TimeSpan value arithmetic (pure functions  *)
(*               applied to inputs drawn by the initial state),            *)
(*   SpecSpan    the TimeSpan views and its constructor from fields,       *)
(*   SpecBcd     the two BCD codec functions,                              *)
(*   Spec        a uRTCLib object talking to the chip's register file      *)
(*               through the Wire bus: alarms and square wave (SpecByte:   *)
(*               one call from every possible control byte),               *)
(*   SpecBus     the same calls over a bus whose transactions may fail,    *)
(*   SpecStatus  the calls that read and write the status byte,            *)
(*   SpecTime    now() and adjust() on the seven time registers,           *)
(*   SpecPin     any sequence of the calls that write the control or the   *)
(*               status byte, from a chip with both alarms disabled,       *)
(*   SpecWire    one call of any function of the object, run one bus       *)
(*               transaction at a time with a log of the transactions.     *)
(*                                                                         *)
(* Integer widths.  uint8_t and uint16_t values are plain naturals reduced *)
(* with U8 / U16.  A 32-bit value (uint32_t, int32_t, long on the 8- and   *)
(* 32-bit Arduino targets) is kept as its bit pattern, a pair <<hi, lo>>   *)
(* of 16-bit limbs, so that wrap-around at 2^32 is computed, not assumed   *)
(* away.  An int32_t is the same pattern read in two's complement.         *)
(***************************************************************************)
EXTENDS Integers, Sequences, FiniteSets, TLC

VARIABLES cal, bcd, regs, mirror, last

vars == <<cal, bcd, regs, mirror, last>>

(***************************************************************************)
(* Fixed-width arithmetic                                                  *)
(***************************************************************************)
U8(x) == x % 256

U16(x) == x % 65536

\* The 32-bit pattern of a natural below 2^31.
FromNat(n) == <<n \div 65536, n % 65536>>

\* The 32-bit two's-complement pattern of an integer in -2^31 .. 2^31-1.
FromInt32(i) ==
  IF i >= 0 THEN FromNat(i)
  ELSE LET n == -(i + 1) IN <<65535 - (n \div 65536), 65535 - (n % 65536)>>

Add32(a, b) ==
  LET lo == a[2] + b[2]
      hi == a[1] + b[1] + (lo \div 65536)
  IN <<hi % 65536, lo % 65536>>

Neg32(a) == Add32(<<65535 - a[1], 65535 - a[2]>>, <<0, 1>>)

Sub32(a, b) == Add32(a, Neg32(b))

\* a * k modulo 2^32, for 0 <= k < 32768.
Mul32(a, k) ==
  LET lo == a[2] * k
      hi == a[1] * k + (lo \div 65536)
  IN <<hi % 65536, lo % 65536>>

\* Unsigned a / k and a % k, for 0 < k < 32768.
Div32(a, k) ==
  LET r == a[1] % k
  IN <<a[1] \div k, (r * 65536 + a[2]) \div k>>

Mod32(a, k) == ((a[1] % k) * 65536 + a[2]) % k

(***************************************************************************)
(* Calendar arithmetic (DateTime, TimeSpan)                                *)
(***************************************************************************)
SECONDS_FROM_1970_TO_2000 == FromNat(946684800)

daysInMonth == <<31, 28, 31, 30, 31, 30, 31, 31, 30, 31, 30>>

\* The loop "for (i = 1; i < m; ++i) days += daysInMonth[i - 1]" of date2days,
\* from i on.  The table has eleven entries; the source reads past it for
\* m > 12, which no caller in range does.
RECURSIVE MonthDaysFrom(_, _)
MonthDaysFrom(i, m) ==
  IF i < m /\ i <= 11 THEN daysInMonth[i] + MonthDaysFrom(i + 1, m) ELSE 0

\* Faulty variant: adds the leap day from February on.
date2days_leapAfterJanuary(y0, m, d) ==
  LET y == IF y0 >= 2000 THEN y0 - 2000 ELSE y0
      days == U16(d + MonthDaysFrom(1, m))
      days2 == IF m > 1 /\ y % 4 = 0 THEN U16(days + 1) ELSE days
  IN U16(days2 + 365 * y + (y + 3) \div 4 - 1)

date2days(y0, m, d) ==
  LET y == IF y0 >= 2000 THEN y0 - 2000 ELSE y0
      days == U16(d + MonthDaysFrom(1, m))
      days2 == IF m > 2 /\ y % 4 = 0 THEN U16(days + 1) ELSE days
  IN U16(days2 + 365 * y + (y + 3) \div 4 - 1)

\* ((days * 24L + h) * 60 + m) * 60 + s in a long.  The last product passes
\* 2^31 for days > 24855; every supported target then yields the wrapped
\* two's-complement pattern (32-bit long) or the exact value (64-bit long),
\* and both convert to the same uint32_t in unixtime().
\* Faulty variant: adds the minute where the second belongs.
time2long_minuteForSecond(days, h, m, s) ==
  Add32(Mul32(FromNat((days * 24 + h) * 60 + m), 60), FromNat(m))

time2long(days, h, m, s) ==
  Add32(Mul32(FromNat((days * 24 + h) * 60 + m), 60), FromNat(s))

\* DateTime(year, month, day, hour, min, sec)
DateTime(year, month, day, hour, min, sec) ==
  [yOff |-> U8(IF year >= 2000 THEN year - 2000 ELSE year),
   m |-> month, d |-> day, hh |-> hour, mm |-> min, ss |-> sec]

\* Faulty variant: the century year 2000 is not taken as a leap year.
RECURSIVE YearLoop_centuryNotLeap(_, _)
YearLoop_centuryNotLeap(yOff, days) ==
  LET leap == IF yOff % 4 = 0 /\ yOff % 100 # 0 THEN 1 ELSE 0
  IN IF days < 365 + leap THEN [yOff |-> yOff, days |-> days, leap |-> leap]
     ELSE YearLoop_centuryNotLeap(U8(yOff + 1), days - (365 + leap))

\* The first loop of DateTime(uint32_t): peel whole years off the day count.
RECURSIVE YearLoop(_, _)
YearLoop(yOff, days) ==
  LET leap == IF yOff % 4 = 0 THEN 1 ELSE 0
  IN IF days < 365 + leap THEN [yOff |-> yOff, days |-> days, leap |-> leap]
     ELSE YearLoop(U8(yOff + 1), days - (365 + leap))

\* The second loop: peel whole months off what is left.
RECURSIVE MonthLoop(_, _, _)
MonthLoop(m, days, leap) ==
  IF m < 12
  THEN LET daysPerMonth == daysInMonth[m] + (IF leap = 1 /\ m = 2 THEN 1 ELSE 0)
       IN IF days < daysPerMonth THEN [m |-> m, days |-> days]
          ELSE MonthLoop(m + 1, days - daysPerMonth, leap)
  ELSE [m |-> m, days |-> days]

\* Faulty variant: the month loop never lengthens February.
DateTimeFromUnix_noLeapFebruary(t0) ==
  LET t1 == Sub32(t0, SECONDS_FROM_1970_TO_2000)
      t2 == Div32(t1, 60)
      t3 == Div32(t2, 60)
      yl == YearLoop(0, (Div32(t3, 24))[2])
      ml == MonthLoop(1, yl.days, 0)
  IN [yOff |-> yl.yOff, m |-> ml.m, d |-> U8(ml.days + 1),
      hh |-> Mod32(t3, 24), mm |-> Mod32(t2, 60), ss |-> Mod32(t1, 60)]

\* Faulty variant: the day of the month is left counting from 0.
DateTimeFromUnix_zeroBasedDay(t0) ==
  LET t1 == Sub32(t0, SECONDS_FROM_1970_TO_2000)
      t2 == Div32(t1, 60)
      t3 == Div32(t2, 60)
      yl == YearLoop(0, (Div32(t3, 24))[2])
      ml == MonthLoop(1, yl.days, yl.leap)
  IN [yOff |-> yl.yOff, m |-> ml.m, d |-> U8(ml.days),
      hh |-> Mod32(t3, 24), mm |-> Mod32(t2, 60), ss |-> Mod32(t1, 60)]

\* DateTime(uint32_t t)
DateTimeFromUnix(t0) ==
  LET t1 == Sub32(t0, SECONDS_FROM_1970_TO_2000)
      t2 == Div32(t1, 60)
      t3 == Div32(t2, 60)
      days == (Div32(t3, 24))[2]             \* uint16_t days = t / 24
      yl == YearLoop(0, days)
      ml == MonthLoop(1, yl.days, yl.leap)
  IN [yOff |-> yl.yOff, m |-> ml.m, d |-> U8(ml.days + 1),
      hh |-> Mod32(t3, 24), mm |-> Mod32(t2, 60), ss |-> Mod32(t1, 60)]

\* Faulty variant: takes day 0 for a Friday.
dayOfTheWeek_offByOne(V) == (date2days(V.yOff, V.m, V.d) + 5) % 7

dayOfTheWeek(V) == (date2days(V.yOff, V.m, V.d) + 6) % 7

unixtime(V) ==
  Add32(time2long(date2days(V.yOff, V.m, V.d), V.hh, V.mm, V.ss),
        SECONDS_FROM_1970_TO_2000)

\* TimeSpan(int32_t seconds): the stored _seconds pattern.
TimeSpan(seconds) == seconds

totalseconds(span) == span

\* Faulty variant: subtracts the span.
Plus_subtracts(V, span) == DateTimeFromUnix(Sub32(unixtime(V), totalseconds(span)))

\* DateTime::operator+(const TimeSpan &)
Plus(V, span) == DateTimeFromUnix(Add32(unixtime(V), totalseconds(span)))

\* DateTime::operator-(const TimeSpan &)
MinusSpan(V, span) == DateTimeFromUnix(Sub32(unixtime(V), totalseconds(span)))

\* DateTime::operator-(const DateTime &)
MinusDateTime(V, right) == TimeSpan(Sub32(unixtime(V), unixtime(right)))

(***************************************************************************)
(* BCD codec                                                               *)
(***************************************************************************)
\* Faulty variant: weighs the high nibble wrongly.
bcd2bin_tenPerNibble(val) == U8(val - 10 * (val \div 16))

bcd2bin(val) == U8(val - 6 * (val \div 16))

bin2bcd(val) == U8(val + 6 * (val \div 10))

(***************************************************************************)
(* SpecCal: the calendar functions applied to drawn inputs                 *)
(***************************************************************************)
\* Reference calendar, independent of the code: full Gregorian leap rule.
IsLeapYear(year) == year % 4 = 0 /\ (year % 100 # 0 \/ year % 400 = 0)

MonthLength(year, month) ==
  IF month = 2 THEN (IF IsLeapYear(year) THEN 29 ELSE 28)
  ELSE IF month \in {4, 6, 9, 11} THEN 30 ELSE 31

MaxYearOffset == 99

ValidDates ==
  {ymd \in (0..MaxYearOffset) \X (1..12) \X (1..31) :
     ymd[3] <= MonthLength(2000 + ymd[1], ymd[2])}

\* Every valid date is taken at the first and the last second of the day;
\* 2024-03-15 13:45:30 is the value the documentation works through.
EdgeTimes == {<<0, 0, 0>>, <<23, 59, 59>>}

\* Four dates are taken at every hour, with the minute and the second at
\* both ends and in the middle: the first and last day of the range, a leap
\* day, and the day on which Unix time passes 2^31.
ClockDates == {<<1, 1, 1>>, <<24, 2, 29>>, <<38, 1, 19>>, <<99, 12, 31>>}

ClockTimes == (0..23) \X {0, 29, 59} \X {0, 30, 59}

CalendarValues ==
  {DateTime(2000 + ymd[1], ymd[2], ymd[3], hms[1], hms[2], hms[3]) :
     ymd \in ValidDates, hms \in EdgeTimes}
    \cup {DateTime(2000 + ymd[1], ymd[2], ymd[3], hms[1], hms[2], hms[3]) :
            ymd \in ClockDates, hms \in ClockTimes}
    \cup {DateTime(2024, 3, 15, 13, 45, 30)}

\* operator+ is tried from the days on which a month can begin or end (and
\* from mid-month), where a carry into the next or previous month happens.
SpanFromDays == {1, 2, 15, 28, 29, 30, 31}

\* Durations tried by operator+: whole days up to MaxSpanDays either way, one
\* second either way, and the two ends of int32_t.
MaxSpanDays == 1

SampleSpans ==
  {k * 86400 : k \in (-MaxSpanDays)..MaxSpanDays}
    \cup {-1, 1, 2147483647, -2147483647 - 1}

\* Days from 2000-01-01 to the date, by the reference calendar.
LeapYearsBefore(year) ==
  ((year - 1) \div 4) - ((year - 1) \div 100) + ((year - 1) \div 400)

RECURSIVE DaysBeforeMonth(_, _)
DaysBeforeMonth(year, month) ==
  IF month <= 1 THEN 0
  ELSE MonthLength(year, month - 1) + DaysBeforeMonth(year, month - 1)

DaysSinceEpoch(year, month, day) ==
  365 * (year - 2000) + LeapYearsBefore(year) - LeapYearsBefore(2000)
    + DaysBeforeMonth(year, month) + (day - 1)

LastDay == DaysSinceEpoch(2099, 12, 31)

\* Zeller's congruence for the Gregorian calendar, renumbered 0 = Sunday.
GregorianWeekday(year, month, day) ==
  LET mz == IF month <= 2 THEN month + 12 ELSE month
      yz == IF month <= 2 THEN year - 1 ELSE year
      K == yz % 100
      J == yz \div 100
      h == (day + ((13 * (mz + 1)) \div 5) + K + (K \div 4) + (J \div 4) + 5 * J) % 7
  IN (h + 6) % 7

\* Unix seconds passed to DateTime(uint32_t) on their own: the first and the
\* last value of every block of 65536, over the whole 32-bit range.
SampleSeconds == (0..65535) \X {0, 65535}

\* a < b on unsigned 32-bit patterns.
Less32(a, b) == a[1] < b[1] \/ (a[1] = b[1] /\ a[2] < b[2])

\* 2100-01-01 00:00:00 in Unix seconds: 36525 days after 2000-01-01.
EndOfRange ==
  Add32(SECONDS_FROM_1970_TO_2000, Mul32(Mul32(FromNat(36525), 864), 100))

\* 2000-01-01 00:00:00 <= t <= 2099-12-31 23:59:59
SecondsInRange(t) == ~Less32(t, SECONDS_FROM_1970_TO_2000) /\ Less32(t, EndOfRange)

\* The day on which V + D seconds falls, by the reference calendar.
DayAfterSpan(V, D) ==
  DaysSinceEpoch(2000 + V.yOff, V.m, V.d) + (D \div 86400)
    + ((V.hh * 3600 + V.mm * 60 + V.ss + (D % 86400)) \div 86400)

SpanInRange(V, D) == DayAfterSpan(V, D) \in 0..LastDay

\* The day on which V - D seconds falls, and whether it is in range.
DayBeforeSpan(V, D) ==
  DaysSinceEpoch(2000 + V.yOff, V.m, V.d) - (D \div 86400)
    + ((V.hh * 3600 + V.mm * 60 + V.ss - (D % 86400)) \div 86400)

SpanBackInRange(V, D) == DayBeforeSpan(V, D) \in 0..LastDay

ZeroDateTime == [yOff |-> 0, m |-> 0, d |-> 0, hh |-> 0, mm |-> 0, ss |-> 0]

CalIdle ==
  [pc |-> "idle", V |-> ZeroDateTime, D |-> 0, t |-> <<0, 0>>,
   W |-> ZeroDateTime, n |-> 0]

BcdIdle == [pc |-> "idle", b |-> 0, enc |-> 0, dec |-> 0]

DeviceIdle == <<>>

InitCal ==
  /\ \E V \in CalendarValues : cal = [CalIdle EXCEPT !.pc = "input", !.V = V]
  /\ bcd = BcdIdle
  /\ regs = DeviceIdle
  /\ mirror = DeviceIdle
  /\ last = DeviceIdle

\* t = V.unixtime()
CalUnixtime ==
  /\ cal.pc = "input"
  /\ cal' = [cal EXCEPT !.pc = "unixtime", !.t = unixtime(cal.V)]
  /\ UNCHANGED <<bcd, regs, mirror, last>>

\* W = DateTime(t)
CalFromUnixtime ==
  /\ cal.pc = "unixtime"
  /\ cal' = [cal EXCEPT !.pc = "roundtrip", !.W = DateTimeFromUnix(cal.t)]
  /\ UNCHANGED <<bcd, regs, mirror, last>>

\* n = V.dayOfTheWeek()
CalDayOfTheWeek ==
  /\ cal.pc = "input"
  /\ cal' = [cal EXCEPT !.pc = "dow", !.n = dayOfTheWeek(cal.V)]
  /\ UNCHANGED <<bcd, regs, mirror, last>>

\* W = V + TimeSpan(D)
CalPlus ==
  /\ cal.pc = "input"
  /\ cal.V.d \in SpanFromDays
  /\ \E D \in SampleSpans :
       cal' = [cal EXCEPT !.pc = "plus", !.D = D,
                 !.W = Plus(cal.V, TimeSpan(FromInt32(D)))]
  /\ UNCHANGED <<bcd, regs, mirror, last>>

\* t = (W - V).totalseconds()
CalMinus ==
  /\ cal.pc = "plus"
  /\ cal' = [cal EXCEPT !.pc = "minus",
               !.t = totalseconds(MinusDateTime(cal.W, cal.V))]
  /\ UNCHANGED <<bcd, regs, mirror, last>>

\* W = V - TimeSpan(D)
CalMinusSpan ==
  /\ cal.pc = "input"
  /\ cal.V.d \in SpanFromDays
  /\ \E D \in SampleSpans :
       cal' = [cal EXCEPT !.pc = "minusspan", !.D = D,
                 !.W = MinusSpan(cal.V, TimeSpan(FromInt32(D)))]
  /\ UNCHANGED <<bcd, regs, mirror, last>>

\* W = DateTime(t) for seconds t that come from no DateTime; drawn once, next
\* to the value the documentation works through.
CalFromSeconds ==
  /\ cal.pc = "input"
  /\ cal.V = DateTime(2024, 3, 15, 13, 45, 30)
  /\ \E t \in SampleSeconds :
       cal' = [cal EXCEPT !.pc = "fromunix", !.t = t, !.W = DateTimeFromUnix(t)]
  /\ UNCHANGED <<bcd, regs, mirror, last>>

\* n = date2days(yOff, m, d), as unixtime() calls it, and D = date2days(year,
\* m, d) with the four-digit year; once per date.
CalDate2days ==
  /\ cal.pc = "input"
  /\ cal.V.hh = 0 /\ cal.V.mm = 0 /\ cal.V.ss = 0
  /\ cal' = [cal EXCEPT !.pc = "days",
                        !.n = date2days(cal.V.yOff, cal.V.m, cal.V.d),
                        !.D = date2days(2000 + cal.V.yOff, cal.V.m, cal.V.d)]
  /\ UNCHANGED <<bcd, regs, mirror, last>>

\* Values subtracted by operator-(const DateTime &): both ends of the range
\* and a value in the middle.
DifferenceFrom ==
  {DateTime(2000, 1, 1, 0, 0, 0), DateTime(2050, 6, 15, 12, 0, 0),
   DateTime(2099, 12, 31, 23, 59, 59)}

\* t = (V - W).totalseconds(), for V at midnight.
CalDifference ==
  /\ cal.pc = "input"
  /\ cal.V.hh = 0 /\ cal.V.mm = 0 /\ cal.V.ss = 0
  /\ \E B \in DifferenceFrom :
       cal' = [cal EXCEPT !.pc = "difference", !.W = B,
                 !.t = totalseconds(MinusDateTime(cal.V, B))]
  /\ UNCHANGED <<bcd, regs, mirror, last>>

NextCal ==
  \/ CalDate2days
  \/ CalDifference
  \/ CalUnixtime \/ CalFromUnixtime \/ CalDayOfTheWeek \/ CalPlus \/ CalMinus
  \/ CalMinusSpan \/ CalFromSeconds

SpecCal == InitCal /\ [][NextCal]_vars

(***************************************************************************)
(* SpecBcd: the codec applied to every byte                                *)
(***************************************************************************)
InitBcd ==
  /\ \E b \in 0..255 : bcd = [BcdIdle EXCEPT !.pc = "input", !.b = b]
  /\ cal = CalIdle
  /\ regs = DeviceIdle
  /\ mirror = DeviceIdle
  /\ last = DeviceIdle

\* enc = bin2bcd(b)
BcdEncode ==
  /\ bcd.pc = "input"
  /\ bcd' = [bcd EXCEPT !.pc = "encoded", !.enc = bin2bcd(bcd.b)]
  /\ UNCHANGED <<cal, regs, mirror, last>>

\* dec = bcd2bin(enc)
BcdDecode ==
  /\ bcd.pc = "encoded"
  /\ bcd' = [bcd EXCEPT !.pc = "decoded", !.dec = bcd2bin(bcd.enc)]
  /\ UNCHANGED <<cal, regs, mirror, last>>

NextBcd == BcdEncode \/ BcdDecode

SpecBcd == InitBcd /\ [][NextBcd]_vars

(***************************************************************************)
(* The chip's register file and the uRTCLib object                         *)
(***************************************************************************)
RECURSIVE AndBits(_, _, _)
AndBits(a, b, n) ==
  IF n = 0 THEN 0
  ELSE (a % 2) * (b % 2) + 2 * AndBits(a \div 2, b \div 2, n - 1)

\* a & b and a | b on bytes.
And8(a, b) == AndBits(a, b, 8)

Or8(a, b) == a + b - And8(a, b)

Bit(v, i) == (v \div (2 ^ i)) % 2

URTCLIB_ALARM_TYPE_1_NONE == 0

URTCLIB_ALARM_TYPE_1_ALL_S == 47

URTCLIB_ALARM_TYPE_1_FIXED_S == 46

URTCLIB_ALARM_TYPE_1_FIXED_MS == 44

URTCLIB_ALARM_TYPE_1_FIXED_HMS == 40

URTCLIB_ALARM_TYPE_1_FIXED_DHMS == 32

URTCLIB_ALARM_TYPE_1_FIXED_DOWHMS == 48

URTCLIB_ALARM_TYPE_2_NONE == 128

URTCLIB_ALARM_TYPE_2_ALL_M == 174

URTCLIB_ALARM_TYPE_2_FIXED_M == 172

URTCLIB_ALARM_TYPE_2_FIXED_HM == 168

URTCLIB_ALARM_TYPE_2_FIXED_DHM == 160

URTCLIB_ALARM_TYPE_2_FIXED_DOWHM == 176

URTCLIB_ALARM_1 == URTCLIB_ALARM_TYPE_1_NONE

URTCLIB_ALARM_2 == URTCLIB_ALARM_TYPE_2_NONE

URTCLIB_SQWG_OFF_0 == 255

URTCLIB_SQWG_OFF_1 == 254

URTCLIB_SQWG_1H == 0

URTCLIB_SQWG_1024H == 8

URTCLIB_SQWG_4096H == 16

URTCLIB_SQWG_8192H == 24

URTCLIB_SQWG_32768H == 3

\* Register addresses used by the driver.
REG_ALARM1 == 7

REG_ALARM2 == 11

REG_CONTROL == 14

REG_STATUS == 15

Registers == 0..15

\* beginTransmission; write(addr); write(bytes...); endTransmission: the chip
\* stores the bytes at addr, addr + 1, ...
WireWrite(r, addr, bytes) ==
  [a \in DOMAIN r |->
     IF a >= addr /\ a < addr + Len(bytes) THEN bytes[a - addr + 1] ELSE r[a]]

\* beginTransmission; write(addr); endTransmission; requestFrom(1); read()
WireRead(r, addr) == r[addr]

\* The outcome of the bus transactions of one call: <<the write of the alarm
\* registers, the read of a control or status byte, the write of that byte>>,
\* TRUE where the chip acknowledges.  A call without an alarm-register write
\* has TRUE in the first place.
BusUp == <<TRUE, TRUE, TRUE>>

BusOutcomes == BOOLEAN \X BOOLEAN \X BOOLEAN

\* A write transaction the chip may not acknowledge: nothing is stored then.
\* The driver discards the value of endTransmission().
WireWriteOn(ack, r, addr, bytes) == IF ack THEN WireWrite(r, addr, bytes) ELSE r

\* A read the chip may not answer: requestFrom() receives nothing and read()
\* returns -1, which the driver stores in a uint8_t.
WireReadOn(ack, r, addr) == IF ack THEN WireRead(r, addr) ELSE 255

\* The member initialisers of class uRTCLib.
MirrorInit ==
  [a1_mode |-> URTCLIB_ALARM_TYPE_1_NONE, a1_second |-> 0, a1_minute |-> 0,
   a1_hour |-> 0, a1_day_dow |-> 0,
   a2_mode |-> URTCLIB_ALARM_TYPE_2_NONE, a2_minute |-> 0, a2_hour |-> 0,
   a2_day_dow |-> 0,
   sqwg_mode |-> URTCLIB_SQWG_OFF_1,
   second |-> 0, minute |-> 0, hour |-> 0, day |-> 0, month |-> 0, year |-> 0,
   dayOfWeek |-> 0]

\* alarmMode(alarm) and sqwgMode(), read off a mirror.
alarmModeOf(mir, alarm) ==
  CASE alarm = URTCLIB_ALARM_1 -> mir.a1_mode
    [] alarm = URTCLIB_ALARM_2 -> mir.a2_mode
    [] OTHER -> 255

alarmMode(alarm) == alarmModeOf(mirror, alarm)

sqwgMode == mirror.sqwg_mode

\* The record of the last call: the operation, its first argument, its return
\* value, the square-wave mode the mirror held when the call was made and the
\* outcome of its bus transactions.
CalledOn(ok, op, arg, ret) ==
  [op |-> op, arg |-> arg, ret |-> ret, was |-> mirror.sqwg_mode, bus |-> ok]

Called(op, arg, ret) == CalledOn(BusUp, op, arg, ret)

(***************************************************************************)
(* alarmSet                                                                *)
(***************************************************************************)
\* The control byte written back by the two "disable" branches of alarmSet.
alarmSetNoneStatus(type, status) ==
  IF type = URTCLIB_ALARM_TYPE_1_NONE THEN And8(status, 254) ELSE And8(status, 253)

\* Faulty variant: sets both alarm enable bits.
alarmSetEnableStatus_bothEnables(type, status) == Or8(status, 7)

\* Faulty variant: sets the enable bit and leaves INTCN as it was.
alarmSetEnableStatus_keepsIntcn(type, status) ==
  IF And8(type, 128) = 0 THEN Or8(status, 1) ELSE Or8(status, 2)

\* The control byte written back when an alarm is armed.
alarmSetEnableStatus(type, status) ==
  IF And8(type, 128) = 0 THEN Or8(status, 5) ELSE Or8(status, 6)

\* Faulty variant: the DY/DT select lands in bit 5 of the day byte.
alarmSetBytes_dydtBit5(type, second, minute, hour, day_dow) ==
  LET sec == Or8(And8(bin2bcd(second), 127), U8(And8(type, 1) * 128))
      min == Or8(And8(bin2bcd(minute), 127), U8(And8(type, 2) * 64))
      hr == Or8(And8(bin2bcd(hour), 63), U8(And8(type, 4) * 32))
      day == Or8(And8(bin2bcd(day_dow), 63),
                 Or8(U8(And8(type, 8) * 16), U8(And8(type, 16) * 2)))
  IN IF And8(type, 128) = 0 THEN <<sec, min, hr, day>> ELSE <<min, hr, day>>

\* The alarm registers written when an alarm is armed: four bytes from 0x07
\* for alarm 1, three bytes from 0x0B for alarm 2.
alarmSetBytes(type, second, minute, hour, day_dow) ==
  LET sec == Or8(And8(bin2bcd(second), 127), U8(And8(type, 1) * 128))
      min == Or8(And8(bin2bcd(minute), 127), U8(And8(type, 2) * 64))
      hr == Or8(And8(bin2bcd(hour), 63), U8(And8(type, 4) * 32))
      day == Or8(And8(bin2bcd(day_dow), 63),
                 Or8(U8(And8(type, 8) * 16), U8(And8(type, 16) * 4)))
  IN IF And8(type, 128) = 0 THEN <<sec, min, hr, day>> ELSE <<min, hr, day>>

\* Faulty variant: arming an alarm leaves the mirrored square-wave mode alone.
alarmSetMirror_keepsSqwg(type, second, minute, hour, day_dow, mir) ==
  IF And8(type, 128) = 0
  THEN [mir EXCEPT !.a1_mode = type, !.a1_second = second, !.a1_minute = minute,
                   !.a1_hour = hour, !.a1_day_dow = day_dow]
  ELSE [mir EXCEPT !.a2_mode = type, !.a2_minute = minute, !.a2_hour = hour,
                   !.a2_day_dow = day_dow]

\* The mirror after an alarm is armed.
alarmSetMirror(type, second, minute, hour, day_dow, mir) ==
  IF And8(type, 128) = 0
  THEN [mir EXCEPT !.a1_mode = type, !.a1_second = second, !.a1_minute = minute,
                   !.a1_hour = hour, !.a1_day_dow = day_dow,
                   !.sqwg_mode = URTCLIB_SQWG_OFF_1]
  ELSE [mir EXCEPT !.a2_mode = type, !.a2_minute = minute, !.a2_hour = hour,
                   !.a2_day_dow = day_dow,
                   !.sqwg_mode = URTCLIB_SQWG_OFF_1]

\* alarmSet with the given bus outcome.  No branch looks at the outcome: the
\* mirror is written and true returned whatever the chip acknowledged.
alarmSetOn(ok, type, second, minute, hour, day_dow) ==
  IF type = URTCLIB_ALARM_TYPE_1_NONE \/ type = URTCLIB_ALARM_TYPE_2_NONE
  THEN /\ regs' = WireWriteOn(ok[3], regs, REG_CONTROL,
                     <<alarmSetNoneStatus(type, WireReadOn(ok[2], regs, REG_CONTROL))>>)
       /\ mirror' = IF type = URTCLIB_ALARM_TYPE_1_NONE
                    THEN [mirror EXCEPT !.a1_mode = type]
                    ELSE [mirror EXCEPT !.a2_mode = type]
       /\ last' = CalledOn(ok, "alarmSet", type, TRUE)
  ELSE LET base == IF And8(type, 128) = 0 THEN REG_ALARM1 ELSE REG_ALARM2
           r1 == WireWriteOn(ok[1], regs, base,
                             alarmSetBytes(type, second, minute, hour, day_dow))
           status == alarmSetEnableStatus(type, WireReadOn(ok[2], r1, REG_CONTROL))
       IN /\ regs' = WireWriteOn(ok[3], r1, REG_CONTROL, <<status>>)
          /\ mirror' = alarmSetMirror(type, second, minute, hour, day_dow, mirror)
          /\ last' = CalledOn(ok, "alarmSet", type, TRUE)

alarmSet(type, second, minute, hour, day_dow) ==
  alarmSetOn(BusUp, type, second, minute, hour, day_dow)

(***************************************************************************)
(* alarmDisable                                                            *)
(***************************************************************************)
\* The switch that selects the mask; 0 when the selector names no alarm.
alarmDisableMask(alarm) ==
  CASE alarm = URTCLIB_ALARM_1 -> 254
    [] alarm = URTCLIB_ALARM_2 -> 253
    [] OTHER -> 0

\* Faulty variant: clears both enable bits.
alarmDisableStatus_dropsA2IE(alarm, status) == And8(status, 252)

\* The control byte written back: the mask chosen above is not used, the
\* literal A1IE mask is.
alarmDisableStatus(alarm, status) == And8(status, 254)

\* The mirror after the write: always slot 1.
alarmDisableMirror(alarm, mir) ==
  [mir EXCEPT !.a1_mode = URTCLIB_ALARM_TYPE_1_NONE]

alarmDisableOn(ok, alarm) ==
  IF alarmDisableMask(alarm) # 0
  THEN /\ regs' = WireWriteOn(ok[3], regs, REG_CONTROL,
                     <<alarmDisableStatus(alarm, WireReadOn(ok[2], regs, REG_CONTROL))>>)
       /\ mirror' = alarmDisableMirror(alarm, mirror)
       /\ last' = CalledOn(ok, "alarmDisable", alarm, TRUE)
  ELSE /\ UNCHANGED <<regs, mirror>>
       /\ last' = CalledOn(ok, "alarmDisable", alarm, FALSE)

alarmDisable(alarm) == alarmDisableOn(BusUp, alarm)

(***************************************************************************)
(* sqwgSetMode                                                             *)
(***************************************************************************)
\* Faulty variant: the 1024 Hz row keeps INTCN.
processAnd_keepsIntcn(mode) ==
  CASE mode = URTCLIB_SQWG_OFF_1 -> 255
    [] mode = URTCLIB_SQWG_1H -> 227
    [] mode = URTCLIB_SQWG_1024H -> 239
    [] mode = URTCLIB_SQWG_4096H -> 243
    [] mode = URTCLIB_SQWG_8192H -> 251
    [] OTHER -> 0

processAnd(mode) ==
  CASE mode = URTCLIB_SQWG_OFF_1 -> 255
    [] mode = URTCLIB_SQWG_1H -> 227
    [] mode = URTCLIB_SQWG_1024H -> 235
    [] mode = URTCLIB_SQWG_4096H -> 243
    [] mode = URTCLIB_SQWG_8192H -> 251
    [] OTHER -> 0

\* Faulty variant: has a row for the 32768 Hz rate.
processOr_rate32768(mode) ==
  CASE mode = URTCLIB_SQWG_OFF_1 -> 4
    [] mode = URTCLIB_SQWG_1H -> 0
    [] mode = URTCLIB_SQWG_1024H -> 8
    [] mode = URTCLIB_SQWG_4096H -> 16
    [] mode = URTCLIB_SQWG_8192H -> 24
    [] mode = URTCLIB_SQWG_32768H -> 3
    [] OTHER -> 0

processOr(mode) ==
  CASE mode = URTCLIB_SQWG_OFF_1 -> 4
    [] mode = URTCLIB_SQWG_1H -> 0
    [] mode = URTCLIB_SQWG_1024H -> 8
    [] mode = URTCLIB_SQWG_4096H -> 16
    [] mode = URTCLIB_SQWG_8192H -> 24
    [] OTHER -> 0

\* Faulty variant: never touches the alarm mirrors.
sqwgSetModeMirror_keepsAlarms(mode, mir) == [mir EXCEPT !.sqwg_mode = mode]

\* The mirror after the write.
sqwgSetModeMirror(mode, mir) ==
  IF mode = URTCLIB_SQWG_OFF_1 \/ mode = URTCLIB_SQWG_OFF_0
  THEN [mir EXCEPT !.sqwg_mode = mode,
                   !.a1_mode = URTCLIB_ALARM_TYPE_1_NONE,
                   !.a2_mode = URTCLIB_ALARM_TYPE_2_NONE]
  ELSE [mir EXCEPT !.sqwg_mode = mode]

sqwgSetModeOn(ok, mode) ==
  IF processAnd(mode) # 0 \/ processOr(mode) # 0
  THEN LET status == Or8(And8(WireReadOn(ok[2], regs, REG_CONTROL), processAnd(mode)),
                         processOr(mode))
       IN /\ regs' = WireWriteOn(ok[3], regs, REG_CONTROL, <<status>>)
          /\ mirror' = sqwgSetModeMirror(mode, mirror)
          /\ last' = CalledOn(ok, "sqwgSetMode", mode, TRUE)
  ELSE /\ UNCHANGED <<regs, mirror>>
       /\ last' = CalledOn(ok, "sqwgSetMode", mode, FALSE)

sqwgSetMode(mode) == sqwgSetModeOn(BusUp, mode)

(***************************************************************************)
(* now, adjust: the seven time registers                                   *)
(***************************************************************************)
\* The accessors second() .. year(): each returns its mirror member.
second == mirror.second

minute == mirror.minute

hour == mirror.hour

day == mirror.day

month == mirror.month

year == mirror.year

\* The DateTime that now() builds from the seven bytes read from 0x00.  The
\* fourth byte (day of week) is read and dropped.
nowValue(r) ==
  LET ss == bcd2bin(And8(WireRead(r, 0), 127))
      mm == bcd2bin(WireRead(r, 1))
      hh == bcd2bin(WireRead(r, 2))
      d == bcd2bin(WireRead(r, 4))
      m == bcd2bin(WireRead(r, 5))
      y == U16(bcd2bin(WireRead(r, 6)) + 2000)
  IN DateTime(y, m, d, hh, mm, ss)

\* now() returns the value (kept in cal.W) and assigns no member.
now ==
  /\ cal' = [cal EXCEPT !.pc = IF cal.pc \in {"adjust", "readback"}
                                THEN "readback" ELSE "now",
                        !.W = nowValue(regs)]
  /\ UNCHANGED <<regs, mirror>>
  /\ last' = Called("now", 0, TRUE)

\* The seven bytes adjust() sends after the address 0.  The source names
\* dt.second, dt.minute, dt.hour, dt.dayOfMonth, dt.month and dt.year; class
\* DateTime has these only as the accessors second(), minute(), hour(), day(),
\* month() and year(), which is how they are read here.  year() is
\* 2000 + yOff, cut to a byte by the uint8_t parameter of bin2bcd.
adjustBytes(dt) ==
  <<bin2bcd(dt.ss), bin2bcd(dt.mm), bin2bcd(dt.hh), bin2bcd(0),
    bin2bcd(dt.d), bin2bcd(dt.m), bin2bcd(U8(2000 + dt.yOff))>>

\* adjust(dt): one write of seven bytes from 0x00, then a transaction that
\* sends the address 0x0F and no data.
adjust(dt) ==
  /\ regs' = WireWrite(WireWrite(regs, 0, adjustBytes(dt)), REG_STATUS, <<>>)
  /\ cal' = [cal EXCEPT !.pc = "adjust", !.V = dt]
  /\ UNCHANGED mirror
  /\ last' = Called("adjust", 0, TRUE)

(***************************************************************************)
(* lostPower, lostPowerClear, alarmClearFlag: the status byte              *)
(***************************************************************************)
lostPower ==
  LET status == WireRead(regs, REG_STATUS)
  IN /\ UNCHANGED <<regs, mirror>>
     /\ last' = Called("lostPower", 0, And8(status, 128) = 128)

\* Faulty variant: clears the two alarm flags as well.
lostPowerClearStatus_clearsFlags(status) == And8(status, 124)

\* status &= 0b01111111
lostPowerClearStatus(status) == And8(status, 127)

\* lostPowerClear returns nothing; the call record holds TRUE.
lostPowerClear ==
  /\ regs' = WireWrite(regs, REG_STATUS,
                       <<lostPowerClearStatus(WireRead(regs, REG_STATUS))>>)
  /\ UNCHANGED mirror
  /\ last' = Called("lostPowerClear", 0, TRUE)

\* The switch that selects the mask; 0 when the selector names no alarm.
alarmClearFlagMask(alarm) ==
  CASE alarm = URTCLIB_ALARM_1 -> 254
    [] alarm = URTCLIB_ALARM_2 -> 253
    [] OTHER -> 0

\* Faulty variant: the literal alarm 1 mask for either alarm.
alarmClearFlagStatus_alarm1Only(alarm, status) == And8(status, 254)

\* status &= mask
alarmClearFlagStatus(alarm, status) == And8(status, alarmClearFlagMask(alarm))

alarmClearFlag(alarm) ==
  IF alarmClearFlagMask(alarm) # 0
  THEN /\ regs' = WireWrite(regs, REG_STATUS,
                            <<alarmClearFlagStatus(alarm, WireRead(regs, REG_STATUS))>>)
       /\ UNCHANGED mirror
       /\ last' = Called("alarmClearFlag", alarm, TRUE)
  ELSE /\ UNCHANGED <<regs, mirror>>
       /\ last' = Called("alarmClearFlag", alarm, FALSE)

(***************************************************************************)
(* Spec: any sequence of calls.  SpecByte: one call, any control byte.     *)
(***************************************************************************)
\* The thirteen defined type bytes of alarmSet.
AlarmTypes ==
  {URTCLIB_ALARM_TYPE_1_NONE, URTCLIB_ALARM_TYPE_1_ALL_S,
   URTCLIB_ALARM_TYPE_1_FIXED_S, URTCLIB_ALARM_TYPE_1_FIXED_MS,
   URTCLIB_ALARM_TYPE_1_FIXED_HMS, URTCLIB_ALARM_TYPE_1_FIXED_DHMS,
   URTCLIB_ALARM_TYPE_1_FIXED_DOWHMS,
   URTCLIB_ALARM_TYPE_2_NONE, URTCLIB_ALARM_TYPE_2_ALL_M,
   URTCLIB_ALARM_TYPE_2_FIXED_M, URTCLIB_ALARM_TYPE_2_FIXED_HM,
   URTCLIB_ALARM_TYPE_2_FIXED_DHM, URTCLIB_ALARM_TYPE_2_FIXED_DOWHM}

\* One byte per slot that is no defined type.
UndefinedTypes == {1, 192}

\* Type bytes used in call sequences: per slot the disabled type, two
\* defined trigger types and the undefined byte.
SequenceTypes ==
  {URTCLIB_ALARM_TYPE_1_NONE, URTCLIB_ALARM_TYPE_1_ALL_S,
   URTCLIB_ALARM_TYPE_1_FIXED_HMS,
   URTCLIB_ALARM_TYPE_2_NONE, URTCLIB_ALARM_TYPE_2_ALL_M,
   URTCLIB_ALARM_TYPE_2_FIXED_DOWHM} \cup UndefinedTypes

\* <<second, minute, hour, day_dow>> passed to alarmSet.
AlarmTimes == {<<0, 30, 7, 15>>}

\* Further in-range times for the first call: the largest value of every
\* field, and one-digit values.
EncodingTimes == {<<59, 59, 23, 31>>, <<5, 9, 12, 1>>}

\* Selectors passed to alarmDisable: the two alarms and a byte that is neither.
AlarmSelectors == {URTCLIB_ALARM_1, URTCLIB_ALARM_2, 1}

\* Modes passed to sqwgSetMode: the seven defined ones and an undefined byte.
SqwgModes ==
  {URTCLIB_SQWG_OFF_0, URTCLIB_SQWG_OFF_1, URTCLIB_SQWG_1H, URTCLIB_SQWG_1024H,
   URTCLIB_SQWG_4096H, URTCLIB_SQWG_8192H, URTCLIB_SQWG_32768H, 7}

RateModes ==
  {URTCLIB_SQWG_1H, URTCLIB_SQWG_1024H, URTCLIB_SQWG_4096H, URTCLIB_SQWG_8192H}

OffModes == {URTCLIB_SQWG_OFF_0, URTCLIB_SQWG_OFF_1}

\* The chip's registers when the object is constructed: a running clock
\* (2024-03-15 13:45:30), cleared alarm registers, the given control byte and
\* the power-on status byte.
RegsInit(control) ==
  [a \in Registers |->
     CASE a = 0 -> 48 [] a = 1 -> 69 [] a = 2 -> 19 [] a = 3 -> 0
       [] a = 4 -> 21 [] a = 5 -> 3 [] a = 6 -> 36
       [] a = REG_CONTROL -> control
       [] a = REG_STATUS -> 136
       [] OTHER -> 0]

\* Control bytes the chip may hold when a call sequence starts: the power-on
\* default 0x1C and its complement 0xE3, so that every bit starts both ways.
ControlInit == {28, 227}

InitDevice(controls) ==
  /\ \E c \in controls : regs = RegsInit(c)
  /\ mirror = MirrorInit
  /\ last = Called("none", 0, TRUE)
  /\ cal = CalIdle
  /\ bcd = BcdIdle

Init == InitDevice(ControlInit)

InitByte == InitDevice(0..255)

AlarmSet ==
  /\ \E type \in SequenceTypes, tm \in AlarmTimes :
       alarmSet(type, tm[1], tm[2], tm[3], tm[4])
  /\ UNCHANGED <<cal, bcd>>

AlarmDisable ==
  /\ \E alarm \in AlarmSelectors : alarmDisable(alarm)
  /\ UNCHANGED <<cal, bcd>>

SqwgSetMode ==
  /\ \E mode \in SqwgModes : sqwgSetMode(mode)
  /\ UNCHANGED <<cal, bcd>>

Next == AlarmSet \/ AlarmDisable \/ SqwgSetMode

Spec == Init /\ [][Next]_vars

\* The first call on a new object, with every defined type byte.
FirstAlarmSet ==
  /\ last.op = "none"
  /\ \E type \in AlarmTypes \cup UndefinedTypes,
        tm \in AlarmTimes \cup EncodingTimes :
       alarmSet(type, tm[1], tm[2], tm[3], tm[4])
  /\ UNCHANGED <<cal, bcd>>

FirstAlarmDisable == last.op = "none" /\ AlarmDisable

FirstSqwgSetMode == last.op = "none" /\ SqwgSetMode

NextByte == FirstAlarmSet \/ FirstAlarmDisable \/ FirstSqwgSetMode

SpecByte == InitByte /\ [][NextByte]_vars

(***************************************************************************)
(* SpecBus: any sequence of calls, up to the first call in which a bus     *)
(* transaction fails                                                       *)
(***************************************************************************)
\* A call that is refused before it reaches the bus has no transaction to
\* fail; a call without an alarm-register write has no first transaction.
BusAlarmSet ==
  /\ last.bus = BusUp
  /\ \E ok \in BusOutcomes, type \in SequenceTypes, tm \in AlarmTimes :
       /\ type \in {URTCLIB_ALARM_TYPE_1_NONE, URTCLIB_ALARM_TYPE_2_NONE} => ok[1]
       /\ alarmSetOn(ok, type, tm[1], tm[2], tm[3], tm[4])
  /\ UNCHANGED <<cal, bcd>>

BusAlarmDisable ==
  /\ last.bus = BusUp
  /\ \E ok \in BusOutcomes, alarm \in AlarmSelectors :
       /\ ok[1]
       /\ alarmDisableMask(alarm) = 0 => ok = BusUp
       /\ alarmDisableOn(ok, alarm)
  /\ UNCHANGED <<cal, bcd>>

BusSqwgSetMode ==
  /\ last.bus = BusUp
  /\ \E ok \in BusOutcomes, mode \in SqwgModes :
       /\ ok[1]
       /\ (processAnd(mode) = 0 /\ processOr(mode) = 0) => ok = BusUp
       /\ sqwgSetModeOn(ok, mode)
  /\ UNCHANGED <<cal, bcd>>

NextBus == BusAlarmSet \/ BusAlarmDisable \/ BusSqwgSetMode

SpecBus == Init /\ [][NextBus]_vars

(***************************************************************************)
(* SpecStatus: the status-byte calls, in any order, from any status byte   *)
(***************************************************************************)
InitStatus ==
  /\ \E status \in 0..255 : regs = [RegsInit(28) EXCEPT ![REG_STATUS] = status]
  /\ mirror = MirrorInit
  /\ last = Called("none", 0, TRUE)
  /\ cal = CalIdle
  /\ bcd = BcdIdle

LostPower == lostPower /\ UNCHANGED <<cal, bcd>>

LostPowerClear == lostPowerClear /\ UNCHANGED <<cal, bcd>>

AlarmClearFlag ==
  /\ \E alarm \in AlarmSelectors : alarmClearFlag(alarm)
  /\ UNCHANGED <<cal, bcd>>

NextStatus == LostPower \/ LostPowerClear \/ AlarmClearFlag

SpecStatus == InitStatus /\ [][NextStatus]_vars

(***************************************************************************)
(* SpecTime: now() on the running clock; adjust(V) on a new object, then   *)
(* now()                                                                   *)
(***************************************************************************)
\* The seconds register with bit 7 clear and set, the weekday register with
\* 0 and with Friday.
InitTime ==
  /\ \E hi \in {0, 128}, dow \in {0, 6} :
       regs = [RegsInit(28) EXCEPT ![0] = 48 + hi, ![3] = dow]
  /\ mirror = MirrorInit
  /\ last = Called("none", 0, TRUE)
  /\ cal = CalIdle
  /\ bcd = BcdIdle

Now == now /\ UNCHANGED bcd

Adjust ==
  /\ last.op = "none"
  /\ \E V \in CalendarValues : adjust(V)
  /\ UNCHANGED bcd

NextTime == Now \/ Adjust

SpecTime == InitTime /\ [][NextTime]_vars

(***************************************************************************)
(* SpecPin: any sequence of the calls that write the control or the status *)
(* byte, on a chip whose two alarm enable bits are clear                   *)
(***************************************************************************)
\* Control bytes with A1IE and A2IE clear: the power-on default 0x1C (INTCN
\* set, RS = 11) and 0xE0 (INTCN clear, RS = 00).
PinControls == {28, 224}

InitPin == InitDevice(PinControls)

NextPin ==
  \/ AlarmSet
  \/ AlarmDisable
  \/ SqwgSetMode
  \/ AlarmClearFlag
  \/ LostPowerClear

SpecPin == InitPin /\ [][NextPin]_vars

(***************************************************************************)
(* SpecWire: one call on the object, one bus transaction at a time         *)
(***************************************************************************)
\* The alarm getters: the mirror member of the selected alarm, 0xFF for a
\* selector that names no alarm.  Alarm 2 has no seconds.
alarmSecond(alarm) ==
  CASE alarm = URTCLIB_ALARM_1 -> mirror.a1_second
    [] alarm = URTCLIB_ALARM_2 -> 0
    [] OTHER -> 255

alarmMinute(alarm) ==
  CASE alarm = URTCLIB_ALARM_1 -> mirror.a1_minute
    [] alarm = URTCLIB_ALARM_2 -> mirror.a2_minute
    [] OTHER -> 255

alarmHour(alarm) ==
  CASE alarm = URTCLIB_ALARM_1 -> mirror.a1_hour
    [] alarm = URTCLIB_ALARM_2 -> mirror.a2_hour
    [] OTHER -> 255

alarmDayDow(alarm) ==
  CASE alarm = URTCLIB_ALARM_1 -> mirror.a1_day_dow
    [] alarm = URTCLIB_ALARM_2 -> mirror.a2_day_dow
    [] OTHER -> 255

\* ramRead, ramWrite: uint8_t offset = 0xff;
ramOffset == 255

\* Faulty variant: the memory region is reached whatever the offset.
ramEnabled_always(offset) == TRUE

\* if (offset != 0xff)
ramEnabled(offset) == offset # 255

\* The steps of a call, in program order.  "write" is one transaction that
\* sends a register address and data bytes (none: the address only); "read"
\* sends the address, requests n bytes and receives them; "writeback" sends
\* the address and the byte computed from the byte last received; "mirror"
\* assigns the members; "return" ends the call.
StepWrite(addr, bytes) == [do |-> "write", addr |-> addr, bytes |-> bytes, n |-> 0]

StepRead(addr, n) == [do |-> "read", addr |-> addr, bytes |-> <<>>, n |-> n]

StepWriteBack(addr) == [do |-> "writeback", addr |-> addr, bytes |-> <<>>, n |-> 0]

StepMirror == [do |-> "mirror", addr |-> 0, bytes |-> <<>>, n |-> 0]

StepReturn == [do |-> "return", addr |-> 0, bytes |-> <<>>, n |-> 0]

\* Faulty variant: the control byte is rewritten before the alarm registers.
alarmSetSteps_enableFirst(type, tm) ==
  IF type = URTCLIB_ALARM_TYPE_1_NONE \/ type = URTCLIB_ALARM_TYPE_2_NONE
  THEN <<StepRead(REG_CONTROL, 1), StepWriteBack(REG_CONTROL), StepMirror,
         StepReturn>>
  ELSE <<StepRead(REG_CONTROL, 1), StepWriteBack(REG_CONTROL),
         StepWrite(IF And8(type, 128) = 0 THEN REG_ALARM1 ELSE REG_ALARM2,
                   alarmSetBytes(type, tm[1], tm[2], tm[3], tm[4])),
         StepMirror, StepReturn>>

\* alarmSet(type, tm[1], tm[2], tm[3], tm[4])
alarmSetSteps(type, tm) ==
  IF type = URTCLIB_ALARM_TYPE_1_NONE \/ type = URTCLIB_ALARM_TYPE_2_NONE
  THEN <<StepRead(REG_CONTROL, 1), StepWriteBack(REG_CONTROL), StepMirror,
         StepReturn>>
  ELSE <<StepWrite(IF And8(type, 128) = 0 THEN REG_ALARM1 ELSE REG_ALARM2,
                   alarmSetBytes(type, tm[1], tm[2], tm[3], tm[4])),
         StepRead(REG_CONTROL, 1), StepWriteBack(REG_CONTROL), StepMirror,
         StepReturn>>

\* Faulty variant: a selector that names no alarm is taken as alarm 1.
alarmDisableSteps_anySelector(alarm) ==
  <<StepRead(REG_CONTROL, 1), StepWriteBack(REG_CONTROL), StepMirror,
    StepReturn>>

alarmDisableSteps(alarm) ==
  IF alarmDisableMask(alarm) # 0
  THEN <<StepRead(REG_CONTROL, 1), StepWriteBack(REG_CONTROL), StepMirror,
         StepReturn>>
  ELSE <<StepReturn>>

\* Faulty variant: the control byte is written a second time.
sqwgSetModeSteps_writesTwice(mode) ==
  IF processAnd(mode) # 0 \/ processOr(mode) # 0
  THEN <<StepRead(REG_CONTROL, 1), StepWriteBack(REG_CONTROL),
         StepWriteBack(REG_CONTROL), StepMirror, StepReturn>>
  ELSE <<StepReturn>>

sqwgSetModeSteps(mode) ==
  IF processAnd(mode) # 0 \/ processOr(mode) # 0
  THEN <<StepRead(REG_CONTROL, 1), StepWriteBack(REG_CONTROL), StepMirror,
         StepReturn>>
  ELSE <<StepReturn>>

alarmClearFlagSteps(alarm) ==
  IF alarmClearFlagMask(alarm) # 0
  THEN <<StepRead(REG_STATUS, 1), StepWriteBack(REG_STATUS), StepReturn>>
  ELSE <<StepReturn>>

lostPowerSteps == <<StepRead(REG_STATUS, 1), StepReturn>>

\* Faulty variant: the flag is cleared in the control register.
lostPowerClearSteps_controlRegister ==
  <<StepRead(REG_CONTROL, 1), StepWriteBack(REG_CONTROL), StepReturn>>

lostPowerClearSteps ==
  <<StepRead(REG_STATUS, 1), StepWriteBack(REG_STATUS), StepReturn>>

nowSteps == <<StepRead(0, 7), StepReturn>>

adjustSteps(dt) ==
  <<StepWrite(0, adjustBytes(dt)), StepWrite(REG_STATUS, <<>>), StepReturn>>

ramReadSteps(address) ==
  IF ramEnabled(ramOffset)
  THEN <<StepRead(U8(address + ramOffset), 1), StepReturn>>
  ELSE <<StepReturn>>

ramWriteSteps(address, data) ==
  IF ramEnabled(ramOffset)
  THEN <<StepWrite(U8(address + ramOffset), <<data>>), StepReturn>>
  ELSE <<StepReturn>>

\* The getters and accessors touch neither the bus nor a member.
getterSteps == <<StepReturn>>

\* The byte a call writes back, from the byte it read.
WireModify(op, args, status) ==
  CASE op = "alarmSet" ->
         IF args[1] = URTCLIB_ALARM_TYPE_1_NONE \/ args[1] = URTCLIB_ALARM_TYPE_2_NONE
         THEN alarmSetNoneStatus(args[1], status)
         ELSE alarmSetEnableStatus(args[1], status)
    [] op = "alarmDisable" -> alarmDisableStatus(args[1], status)
    [] op = "sqwgSetMode" ->
         Or8(And8(status, processAnd(args[1])), processOr(args[1]))
    [] op = "lostPowerClear" -> lostPowerClearStatus(status)
    [] op = "alarmClearFlag" -> alarmClearFlagStatus(args[1], status)

\* The members a call assigns after its bus transactions.
WireMirror(op, args, mir) ==
  CASE op = "alarmSet" ->
         IF args[1] = URTCLIB_ALARM_TYPE_1_NONE
         THEN [mir EXCEPT !.a1_mode = args[1]]
         ELSE IF args[1] = URTCLIB_ALARM_TYPE_2_NONE
         THEN [mir EXCEPT !.a2_mode = args[1]]
         ELSE alarmSetMirror(args[1], args[2], args[3], args[4], args[5], mir)
    [] op = "alarmDisable" -> alarmDisableMirror(args[1], mir)
    [] op = "sqwgSetMode" -> sqwgSetModeMirror(args[1], mir)

\* The value a call returns (TRUE for the two void functions); buf holds the
\* bytes last received.
WireResult(op, args, buf) ==
  CASE op = "alarmSet" -> TRUE
    [] op = "alarmDisable" -> alarmDisableMask(args[1]) # 0
    [] op = "sqwgSetMode" -> processAnd(args[1]) # 0 \/ processOr(args[1]) # 0
    [] op = "alarmClearFlag" -> alarmClearFlagMask(args[1]) # 0
    [] op = "lostPower" -> And8(buf[1], 128) = 128
    [] op = "lostPowerClear" -> TRUE
    [] op = "now" -> nowValue([a \in 0..6 |-> buf[a + 1]])
    [] op = "adjust" -> TRUE
    [] op = "ramRead" -> IF ramEnabled(ramOffset) THEN buf[1] ELSE 255
    [] op = "ramWrite" -> ramEnabled(ramOffset)
    [] op = "alarmMode" -> alarmMode(args[1])
    [] op = "alarmSecond" -> alarmSecond(args[1])
    [] op = "alarmMinute" -> alarmMinute(args[1])
    [] op = "alarmHour" -> alarmHour(args[1])
    [] op = "alarmDayDow" -> alarmDayDow(args[1])
    [] op = "sqwgMode" -> sqwgMode
    [] op = "second" -> second
    [] op = "minute" -> minute
    [] op = "hour" -> hour
    [] op = "day" -> day
    [] op = "month" -> month
    [] op = "year" -> year

\* The n bytes the chip answers from addr on; the DS3231 has no register
\* beyond 0x12 and the model none beyond 0x0F, where 0xFF is read.
ChipRead(r, addr, n) ==
  [i \in 1..n |-> IF addr + i - 1 \in DOMAIN r THEN WireRead(r, addr + i - 1)
                  ELSE 255]

\* The call in progress: its name and arguments, the steps still to run, the
\* bytes last received, the bus transactions made so far, and the registers
\* and members as the call found them.
WireFrame(op, args, todo) ==
  [op |-> op, args |-> args, todo |-> todo, ret |-> FALSE, buf |-> <<>>,
   log |-> <<>>, entry |-> [regs |-> regs, mirror |-> mirror]]

WireIdle == WireFrame("none", <<>>, <<>>)

\* Times and addresses passed to the calls.
WireTimes == AlarmTimes \cup EncodingTimes

WireAdjustValues ==
  {DateTime(2024, 3, 15, 13, 45, 30), DateTime(2000, 1, 1, 0, 0, 0),
   DateTime(2099, 12, 31, 23, 59, 59)}

RamAddresses == {0, 1, 15, 55, 56, 235, 236, 241, 255}

RamData == {0, 165}

AlarmGetters ==
  {"alarmMode", "alarmSecond", "alarmMinute", "alarmHour", "alarmDayDow"}

Accessors == {"sqwgMode", "second", "minute", "hour", "day", "month", "year"}

\* The chip as a new object may find it: the alarm registers hold an earlier
\* alarm time (alarm 1 at 06:20:10 on the 12th, alarm 2 at 06:20 on the 12th).
ChipInit(control) ==
  WireWrite(WireWrite(RegsInit(control), REG_ALARM1,
                      alarmSetBytes(URTCLIB_ALARM_TYPE_1_FIXED_DHMS, 10, 20, 6, 12)),
            REG_ALARM2,
            alarmSetBytes(URTCLIB_ALARM_TYPE_2_FIXED_DHM, 10, 20, 6, 12))

\* The object is new, or it has armed both alarms with that time.
InitWire ==
  /\ \E c \in ControlInit \cup {0, 255} :
       \/ /\ regs = ChipInit(c)
          /\ mirror = MirrorInit
       \/ /\ regs = [ChipInit(c) EXCEPT
                       ![REG_CONTROL] =
                          alarmSetEnableStatus(URTCLIB_ALARM_TYPE_2_FIXED_DHM,
                            alarmSetEnableStatus(URTCLIB_ALARM_TYPE_1_FIXED_DHMS, c))]
          /\ mirror = alarmSetMirror(URTCLIB_ALARM_TYPE_2_FIXED_DHM, 10, 20, 6, 12,
                        alarmSetMirror(URTCLIB_ALARM_TYPE_1_FIXED_DHMS, 10, 20, 6, 12,
                                       MirrorInit))
  /\ last = WireIdle
  /\ cal = CalIdle
  /\ bcd = BcdIdle

\* A call starts when none has been made yet.
WireCall(op, args, todo) ==
  /\ last' = WireFrame(op, args, todo)
  /\ UNCHANGED <<regs, mirror, cal, bcd>>

CallAlarmSet ==
  /\ last.op = "none"
  /\ \E type \in AlarmTypes \cup UndefinedTypes, tm \in WireTimes :
       WireCall("alarmSet", <<type, tm[1], tm[2], tm[3], tm[4]>>,
                alarmSetSteps(type, tm))

CallAlarmDisable ==
  /\ last.op = "none"
  /\ \E alarm \in AlarmSelectors :
       WireCall("alarmDisable", <<alarm>>, alarmDisableSteps(alarm))

CallSqwgSetMode ==
  /\ last.op = "none"
  /\ \E mode \in SqwgModes :
       WireCall("sqwgSetMode", <<mode>>, sqwgSetModeSteps(mode))

CallAlarmClearFlag ==
  /\ last.op = "none"
  /\ \E alarm \in AlarmSelectors :
       WireCall("alarmClearFlag", <<alarm>>, alarmClearFlagSteps(alarm))

CallLostPower ==
  /\ last.op = "none"
  /\ WireCall("lostPower", <<>>, lostPowerSteps)

CallLostPowerClear ==
  /\ last.op = "none"
  /\ WireCall("lostPowerClear", <<>>, lostPowerClearSteps)

CallNow ==
  /\ last.op = "none"
  /\ WireCall("now", <<>>, nowSteps)

CallAdjust ==
  /\ last.op = "none"
  /\ \E dt \in WireAdjustValues : WireCall("adjust", <<dt>>, adjustSteps(dt))

CallRamRead ==
  /\ last.op = "none"
  /\ \E address \in RamAddresses :
       WireCall("ramRead", <<address>>, ramReadSteps(address))

CallRamWrite ==
  /\ last.op = "none"
  /\ \E address \in RamAddresses, data \in RamData :
       WireCall("ramWrite", <<address, data>>, ramWriteSteps(address, data))

CallAlarmGetter ==
  /\ last.op = "none"
  /\ \E op \in AlarmGetters, alarm \in AlarmSelectors :
       WireCall(op, <<alarm>>, getterSteps)

CallAccessor ==
  /\ last.op = "none"
  /\ \E op \in Accessors : WireCall(op, <<>>, getterSteps)

\* The next step of the call in progress is of the given kind.
WireAt(kind) == last.todo # <<>> /\ Head(last.todo).do = kind

WireLogged(kind, addr, bytes) ==
  Append(last.log, [kind |-> kind, addr |-> addr, bytes |-> bytes])

WriteTransaction ==
  /\ WireAt("write")
  /\ LET st == Head(last.todo)
     IN /\ regs' = WireWrite(regs, st.addr, st.bytes)
        /\ last' = [last EXCEPT !.todo = Tail(@),
                      !.log = WireLogged("write", st.addr, st.bytes)]
  /\ UNCHANGED <<mirror, cal, bcd>>

ReadTransaction ==
  /\ WireAt("read")
  /\ LET st == Head(last.todo)
         got == ChipRead(regs, st.addr, st.n)
     IN last' = [last EXCEPT !.todo = Tail(@), !.buf = got,
                   !.log = WireLogged("read", st.addr, got)]
  /\ UNCHANGED <<regs, mirror, cal, bcd>>

WriteBackTransaction ==
  /\ WireAt("writeback")
  /\ LET st == Head(last.todo)
         status == WireModify(last.op, last.args, last.buf[1])
     IN /\ regs' = WireWrite(regs, st.addr, <<status>>)
        /\ last' = [last EXCEPT !.todo = Tail(@),
                      !.log = WireLogged("write", st.addr, <<status>>)]
  /\ UNCHANGED <<mirror, cal, bcd>>

MirrorUpdate ==
  /\ WireAt("mirror")
  /\ mirror' = WireMirror(last.op, last.args, mirror)
  /\ last' = [last EXCEPT !.todo = Tail(@)]
  /\ UNCHANGED <<regs, cal, bcd>>

Return ==
  /\ WireAt("return")
  /\ last' = [last EXCEPT !.todo = Tail(@),
                !.ret = WireResult(last.op, last.args, last.buf)]
  /\ UNCHANGED <<regs, mirror, cal, bcd>>

NextWire ==
  \/ CallAlarmSet
  \/ CallAlarmDisable
  \/ CallSqwgSetMode
  \/ CallAlarmClearFlag
  \/ CallLostPower
  \/ CallLostPowerClear
  \/ CallNow
  \/ CallAdjust
  \/ CallRamRead
  \/ CallRamWrite
  \/ CallAlarmGetter
  \/ CallAccessor
  \/ WriteTransaction
  \/ ReadTransaction
  \/ WriteBackTransaction
  \/ MirrorUpdate
  \/ Return

SpecWire == InitWire /\ [][NextWire]_vars

(***************************************************************************)
(* SpecSpan: the TimeSpan views and the constructor from fields            *)
(***************************************************************************)
\* An int32_t bit pattern read in two's complement.
ToInt32(p) ==
  IF p[1] >= 32768 THEN (p[1] - 65536) * 65536 + p[2] ELSE p[1] * 65536 + p[2]

\* Conversion of a result to the return type int16_t / int8_t.
Int16(x) == ((x + 32768) % 65536) - 32768

Int8(x) == ((x + 128) % 256) - 128

\* C++ integer division and remainder by a positive constant: the quotient
\* is truncated toward zero and the remainder has the sign of the dividend.
TruncDiv(a, k) == IF a < 0 /\ a % k # 0 THEN (a \div k) + 1 ELSE a \div k

TruncMod(a, k) == a - k * TruncDiv(a, k)

\* int16_t days() const { return _seconds / 86400L; }
days(span) == Int16(TruncDiv(ToInt32(span), 86400))

\* Faulty variant: the hours are not reduced modulo 24.
hours_total(span) == Int8(TruncDiv(ToInt32(span), 3600))

\* int8_t hours() const { return _seconds / 3600 % 24; }
hours(span) == Int8(TruncMod(TruncDiv(ToInt32(span), 3600), 24))

\* int8_t minutes() const { return _seconds / 60 % 60; }
minutes(span) == Int8(TruncMod(TruncDiv(ToInt32(span), 60), 60))

\* int8_t seconds() const { return _seconds % 60; }
seconds(span) == Int8(TruncMod(ToInt32(span), 60))

\* d * 86400 + r fits in an int32_t (|r| is small): the sum is written as
\* q * 86400 + rem with 0 <= rem < 86400; 2^31 = 24855 * 86400 + 11648 and
\* -2^31 = -24856 * 86400 + 74752.
FitsInt32(d, r) ==
  LET q == d + (r \div 86400)
      rem == r % 86400
  IN /\ q < 24855 \/ (q = 24855 /\ rem <= 11647)
     /\ q > -24856 \/ (q = -24856 /\ rem >= 74752)

\* The constructor's sum (int32_t)d * 86400L + (int32_t)h * 3600 +
\* (int32_t)m * 60 + s is evaluated left to right in long; where long has
\* 32 bits a product or partial sum that does not fit is a signed overflow.
TimeSpanFieldsDefined(d, h, m, s) ==
  /\ FitsInt32(d, 0)
  /\ FitsInt32(d, h * 3600)
  /\ FitsInt32(d, h * 3600 + m * 60)
  /\ FitsInt32(d, h * 3600 + m * 60 + s)

\* TimeSpan(int16_t days, int8_t hours, int8_t minutes, int8_t seconds),
\* computed modulo 2^32.
TimeSpanFields(d, h, m, s) ==
  Add32(Add32(Add32(Mul32(Mul32(FromInt32(d), 864), 100),
                    Mul32(FromInt32(h), 3600)),
              Mul32(FromInt32(m), 60)),
        FromInt32(s))

\* What the constructor can store: the sum when it is defined; after a
\* signed overflow the wrapped sum or, the behaviour being undefined, some
\* other value.
TimeSpanFieldsOutcomes(d, h, m, s) ==
  IF TimeSpanFieldsDefined(d, h, m, s) THEN {TimeSpanFields(d, h, m, s)}
  ELSE {TimeSpanFields(d, h, m, s), FromInt32(2147483647),
        FromInt32(-2147483647 - 1)}

\* Total seconds tried: both ends of int32_t and, with either sign, sums of
\* whole days, hours, minutes and seconds.
SpanTotals ==
  {2147483647, -2147483647 - 1, 2147483646, -2147483647}
    \cup {sg * (dd * 86400 + hh * 3600 + mi * 60 + ss) :
            sg \in {-1, 1}, dd \in {0, 1, 24854}, hh \in {0, 1, 23},
            mi \in {0, 59}, ss \in {0, 1, 59}}

SpanDayFields == {-32768, -24856, -24855, -1, 0, 1, 24855, 24856, 32767}

SpanHourFields == {-128, -1, 0, 23, 127}

SpanMinuteFields == {-128, 0, 59, 127}

SpanViewsOf(span) ==
  [days |-> days(span), hours |-> hours(span), minutes |-> minutes(span),
   seconds |-> seconds(span)]

InitSpan ==
  /\ cal = [CalIdle EXCEPT !.pc = "span"]
  /\ bcd = BcdIdle
  /\ regs = DeviceIdle
  /\ mirror = DeviceIdle
  /\ last = DeviceIdle

\* W = the four views of TimeSpan(t).
SpanViews ==
  /\ cal.pc = "span"
  /\ \E t \in SpanTotals :
       LET span == TimeSpan(FromInt32(t))
       IN cal' = [cal EXCEPT !.pc = "views", !.t = totalseconds(span),
                    !.W = SpanViewsOf(span)]
  /\ UNCHANGED <<bcd, regs, mirror, last>>

\* t = TimeSpan(d, h, m, s).totalseconds() and W = its four views, V = the
\* four fields.
SpanFromFields ==
  /\ cal.pc = "span"
  /\ \E d \in SpanDayFields, h \in SpanHourFields,
        m \in SpanMinuteFields, s \in SpanMinuteFields :
       \E span \in TimeSpanFieldsOutcomes(d, h, m, s) :
         cal' = [cal EXCEPT !.pc = "fields", !.V = <<d, h, m, s>>,
                   !.t = totalseconds(span), !.W = SpanViewsOf(span)]
  /\ UNCHANGED <<bcd, regs, mirror, last>>

NextSpan == SpanViews \/ SpanFromFields

SpecSpan == InitSpan /\ [][NextSpan]_vars

(***************************************************************************)
(* Properties of the calendar arithmetic                                   *)
(***************************************************************************)
\* C1: for every valid Calendar Value V from 2001-01-01 00:00:00 to
\* 2099-12-31 23:59:59, DateTime(V.unixtime()) has the same yearOffset, month,
\* day, hour, minute and second as V.
C1_RoundTrip ==
  (cal.pc = "roundtrip" /\ cal.V.yOff >= 1) => cal.W = cal.V

\* The round trip has been run on the last second of the range, whose Unix
\* time lies above 2^31.
C1_Witness ==
  /\ cal.pc = "roundtrip"
  /\ cal.V = DateTime(2099, 12, 31, 23, 59, 59)
  /\ cal.t[1] >= 32768
  /\ cal.W = cal.V

\* The claim's formula for toUnixSeconds, on 32-bit patterns:
\* daysSinceEpoch * 86400 + hour * 3600 + minute * 60 + second + 946684800.
UnixSecondsFormula(V) ==
  Add32(Add32(Mul32(Mul32(FromNat(DaysSinceEpoch(2000 + V.yOff, V.m, V.d)), 864), 100),
              FromNat(V.hh * 3600 + V.mm * 60 + V.ss)),
        FromNat(946684800))

\* C2 as stated: the Calendar Value (2024, 3, 15, 13, 45, 30) converts to Unix
\* seconds 1710503130.
C2_AsStated ==
  (cal.pc = "unixtime" /\ cal.V = DateTime(2024, 3, 15, 13, 45, 30)) =>
    cal.t = FromNat(1710503130)

\* C2, amended: unixtime() is daysSinceEpoch*86400 + hour*3600 + minute*60 +
\* second + 946684800, which for the Calendar Value (2024, 3, 15, 13, 45, 30)
\* is 1710510330 (19798 days, 49530 seconds into the day).
C2_UnixSeconds ==
  cal.pc = "unixtime" =>
    /\ cal.t = UnixSecondsFormula(cal.V)
    /\ (cal.V = DateTime(2024, 3, 15, 13, 45, 30)) => (cal.t = FromNat(1710510330))

\* unixtime() has been computed for 2024-03-15 13:45:30.
C2_Witness ==
  /\ cal.pc = "unixtime"
  /\ cal.V = DateTime(2024, 3, 15, 13, 45, 30)
  /\ cal.t = FromNat(1710510330)

\* C3: for every valid date from 2000-01-01 to 2099-12-31, dayOfTheWeek()
\* returns (daysSinceEpoch + 6) mod 7, which is the Gregorian weekday numbered
\* 0 = Sunday .. 6 = Saturday; 2000-01-01 gives 6, 2000-01-02 gives 0 and
\* 2024-03-15 gives 5.
C3_DayOfWeek ==
  cal.pc = "dow" =>
    /\ cal.n = (DaysSinceEpoch(2000 + cal.V.yOff, cal.V.m, cal.V.d) + 6) % 7
    /\ cal.n = GregorianWeekday(2000 + cal.V.yOff, cal.V.m, cal.V.d)
    /\ (cal.V.yOff = 0 /\ cal.V.m = 1 /\ cal.V.d = 1) => cal.n = 6
    /\ (cal.V.yOff = 0 /\ cal.V.m = 1 /\ cal.V.d = 2) => cal.n = 0
    /\ (cal.V.yOff = 24 /\ cal.V.m = 3 /\ cal.V.d = 15) => cal.n = 5

\* dayOfTheWeek() has been computed for Friday 2024-03-15.
C3_Witness ==
  /\ cal.pc = "dow"
  /\ cal.V.yOff = 24 /\ cal.V.m = 3 /\ cal.V.d = 15
  /\ cal.n = 5

\* C4: for every valid Calendar Value V and every Duration D, positive or
\* negative, with V + D inside 2000-01-01 00:00:00 .. 2099-12-31 23:59:59,
\* ((V + D) - V).totalseconds() equals D.totalseconds().
C4_SpanAdditivity ==
  (cal.pc = "minus" /\ SpanInRange(cal.V, cal.D)) => cal.t = FromInt32(cal.D)

\* A negative Duration has been added and taken back, across a year boundary.
C4_Witness ==
  /\ cal.pc = "minus"
  /\ cal.D = -86400
  /\ cal.V.m = 1 /\ cal.V.d = 1 /\ cal.V.yOff = 1
  /\ cal.W.m = 12 /\ cal.W.d = 31 /\ cal.W.yOff = 0
  /\ cal.t = FromInt32(-86400)

\* A valid Gregorian date and time of day in 2000-01-01 .. 2099-12-31.
IsValidCalendarValue(W) ==
  /\ W.yOff \in 0..99
  /\ W.m \in 1..12
  /\ W.d \in 1..MonthLength(2000 + W.yOff, W.m)
  /\ W.hh \in 0..23 /\ W.mm \in 0..59 /\ W.ss \in 0..59

\* C20 as stated: every Calendar Value produced by DateTime(uint32_t), for
\* any 32-bit input, or by adding or subtracting a Duration to a valid
\* Calendar Value is a valid Gregorian date in 2000-01-01 .. 2099-12-31:
\* yearOffset in 0..99, month in 1..12, day in 1..length of the month, hour in
\* 0..23, minute and second in 0..59.
C20_AsStated ==
  cal.pc \in {"fromunix", "roundtrip", "plus", "minusspan"}
    => IsValidCalendarValue(cal.W)

\* C20, amended: DateTime(uint32_t) yields a valid date in 2000-01-01 ..
\* 2099-12-31 for every input from 946684800 to 4102444799, and so do V + D
\* and V - D for a valid V whenever the sum or difference lies in that range.
C20_ValidInRange ==
  /\ (cal.pc = "fromunix" /\ SecondsInRange(cal.t)) => IsValidCalendarValue(cal.W)
  /\ cal.pc = "roundtrip" => IsValidCalendarValue(cal.W)
  /\ (cal.pc = "plus" /\ SpanInRange(cal.V, cal.D)) => IsValidCalendarValue(cal.W)
  /\ (cal.pc = "minusspan" /\ SpanBackInRange(cal.V, cal.D))
        => IsValidCalendarValue(cal.W)

\* DateTime(4102422528) has been built: the last sampled second of the range,
\* on 2099-12-31.
C20_Witness ==
  /\ cal.pc = "fromunix"
  /\ cal.t = <<62598, 0>>
  /\ SecondsInRange(cal.t)
  /\ cal.W = DateTime(2099, 12, 31, 17, 48, 48)

\* The day after a date <<yOff, m, d>>, by the reference calendar.
NextDate(ymd) ==
  IF ymd[3] < MonthLength(2000 + ymd[1], ymd[2]) THEN <<ymd[1], ymd[2], ymd[3] + 1>>
  ELSE IF ymd[2] < 12 THEN <<ymd[1], ymd[2] + 1, 1>>
  ELSE <<ymd[1] + 1, 1, 1>>

\* C21: the constructor from Unix seconds gives February 28 days, and 29
\* exactly when yearOffset % 4 = 0: one day after February 28 is February 29
\* in those years and March 1 otherwise, and one day after February 29 is
\* March 1; 2000-02-29 and every valid date of year 2000 round-trip through
\* unixtime() and the constructor unchanged.
C21_FebruaryBoundary ==
  /\ (cal.pc = "plus" /\ cal.D = 86400 /\ cal.V.m = 2 /\ cal.V.d >= 28)
       => cal.W = [cal.V EXCEPT
                     !.m = IF cal.V.d = 28 /\ cal.V.yOff % 4 = 0 THEN 2 ELSE 3,
                     !.d = IF cal.V.d = 28 /\ cal.V.yOff % 4 = 0 THEN 29 ELSE 1]
  /\ (cal.pc = "roundtrip" /\ cal.V.yOff = 0) => cal.W = cal.V
  /\ (cal.pc = "roundtrip" /\ cal.V.m = 2 /\ cal.V.d = 29) => cal.W = cal.V

\* 2000-02-29 23:59:59 has been converted to Unix seconds and back.
C21_Witness ==
  /\ cal.pc = "roundtrip"
  /\ cal.V = DateTime(2000, 2, 29, 23, 59, 59)
  /\ cal.W = cal.V

\* C27: for every valid date in 2000-01-01 .. 2099-12-31, date2days(year,
\* month, day) is the number of days since 2000-01-01 (0 for 2000-01-01),
\* the leap years of the range being exactly the multiples of 4; it fits in
\* 16 bits, and the day after a date has the next integer.
C27_DaysSinceEpoch ==
  cal.pc = "days" =>
    /\ cal.n = DaysSinceEpoch(2000 + cal.V.yOff, cal.V.m, cal.V.d)
    /\ cal.D = cal.n
    /\ IsLeapYear(2000 + cal.V.yOff) = (cal.V.yOff % 4 = 0)
    /\ cal.n \in 0..65535
    /\ (cal.V.yOff = 0 /\ cal.V.m = 1 /\ cal.V.d = 1) => cal.n = 0
    /\ LET next == NextDate(<<cal.V.yOff, cal.V.m, cal.V.d>>)
       IN next[1] <= MaxYearOffset
            => date2days(next[1], next[2], next[3]) = cal.n + 1

\* date2days has been computed for the last day of the range.
C27_Witness ==
  /\ cal.pc = "days"
  /\ cal.V.yOff = 99 /\ cal.V.m = 12 /\ cal.V.d = 31
  /\ cal.n = 36524

\* d * 86400 + r as an integer, for a sum that fits in an int32_t.
DaysPlus(d, r) ==
  LET q == d + (r \div 86400)
      rem == r % 86400
  IN IF q < 0 THEN (q + 1) * 86400 + (rem - 86400) ELSE q * 86400 + rem

Abs(x) == IF x < 0 THEN -x ELSE x

DaysBetween(V, W) ==
  DaysSinceEpoch(2000 + V.yOff, V.m, V.d) - DaysSinceEpoch(2000 + W.yOff, W.m, W.d)

SecondsOfDayBetween(V, W) ==
  (V.hh * 3600 + V.mm * 60 + V.ss) - (W.hh * 3600 + W.mm * 60 + W.ss)

\* C33: for all valid Calendar Values A and B in 2000-01-01 .. 2099-12-31,
\* (A - B).totalseconds() is the difference A.unixtime() - B.unixtime() as a
\* signed integer: positive exactly when A is later than B, zero exactly when
\* they are equal, negative exactly when A is earlier.
C33_AsStated ==
  cal.pc = "difference" =>
    LET dd == DaysBetween(cal.V, cal.W)
        rr == SecondsOfDayBetween(cal.V, cal.W)
        later == dd > 0 \/ (dd = 0 /\ rr > 0)
        earlier == dd < 0 \/ (dd = 0 /\ rr < 0)
    IN /\ FitsInt32(dd, rr)
       /\ ToInt32(cal.t) = DaysPlus(dd, rr)
       /\ (ToInt32(cal.t) > 0) = later
       /\ (ToInt32(cal.t) < 0) = earlier
       /\ (ToInt32(cal.t) = 0) = (~later /\ ~earlier)

(***************************************************************************)
(* Properties of the BCD codec                                             *)
(***************************************************************************)
\* C5: for every b in 0..99, bcd2bin(bin2bcd(b)) = b, where
\* bin2bcd(b) = b + 6 * (b div 10) and bcd2bin(v) = v - 6 * (v >> 4) on 8-bit
\* values, so that the encoding holds the tens digit in the high nibble and the
\* units digit in the low nibble.
C5_BcdRoundTrip ==
  /\ (bcd.pc \in {"encoded", "decoded"} /\ bcd.b <= 99) =>
        bcd.enc = 16 * (bcd.b \div 10) + (bcd.b % 10)
  /\ (bcd.pc = "decoded" /\ bcd.b <= 99) => bcd.dec = bcd.b

\* 99 has been encoded to 0x99 and decoded back.
C5_Witness ==
  bcd.pc = "decoded" /\ bcd.b = 99 /\ bcd.enc = 153 /\ bcd.dec = 99

(***************************************************************************)
(* Properties of the alarm and square-wave operations                      *)
(***************************************************************************)
\* A step that is a call of op with argument arg.
IsCall(op, arg) == last'.op = op /\ last'.arg = arg

\* The mirror holds a defined trigger type for one of the alarms.
TriggerTypes == AlarmTypes \ {URTCLIB_ALARM_TYPE_1_NONE, URTCLIB_ALARM_TYPE_2_NONE}

SomeAlarmArmed ==
  \/ alarmMode(URTCLIB_ALARM_1) \in TriggerTypes
  \/ alarmMode(URTCLIB_ALARM_2) \in TriggerTypes

BothAlarmsDisabled ==
  /\ alarmMode(URTCLIB_ALARM_1) = URTCLIB_ALARM_TYPE_1_NONE
  /\ alarmMode(URTCLIB_ALARM_2) = URTCLIB_ALARM_TYPE_2_NONE

\* C6: when an alarm has been armed with alarmSet and sqwgSetMode is then
\* called with a running rate (1Hz, 1024Hz, 4096Hz, 8192Hz), alarmMode reports
\* the disabled mode for both alarm slots afterwards.
C6_AsStated ==
  [][(SomeAlarmArmed /\ \E mode \in RateModes : IsCall("sqwgSetMode", mode))
       => BothAlarmsDisabled']_vars

\* C7 as stated: after sqwgSetMode with either off mode (keep pin high or keep
\* pin low), alarmMode reports disabled for slot 1 and slot 2.
C7_AsStated ==
  (last.op = "sqwgSetMode" /\ last.arg \in OffModes) => BothAlarmsDisabled

\* C7, amended: sqwgSetMode(off, keep pin high) succeeds and leaves both
\* alarm mirrors disabled and the mirrored wave mode off; sqwgSetMode(off, keep
\* pin low) is rejected: it returns false and changes neither the mirror nor a
\* register.
C7_OffModes ==
  [][/\ IsCall("sqwgSetMode", URTCLIB_SQWG_OFF_1) =>
          (last'.ret /\ BothAlarmsDisabled' /\ sqwgMode' = URTCLIB_SQWG_OFF_1)
     /\ IsCall("sqwgSetMode", URTCLIB_SQWG_OFF_0) =>
          (~last'.ret /\ mirror' = mirror /\ regs' = regs)]_vars

\* Both slots were armed and sqwgSetMode(off, keep pin high) has disabled both
\* mirrors, the enable bits of the control byte still being set.
C7_Witness ==
  /\ last = Called("sqwgSetMode", URTCLIB_SQWG_OFF_1, TRUE)
  /\ BothAlarmsDisabled
  /\ mirror.a1_minute = 30 /\ mirror.a2_minute = 30
  /\ Bit(regs[REG_CONTROL], 0) = 1 /\ Bit(regs[REG_CONTROL], 1) = 1

\* The byte c with bit i cleared.
ClearBit(c, i) == c - Bit(c, i) * (2 ^ i)

\* C8: for every prior control byte, disabling alarm 1, by
\* alarmDisable(URTCLIB_ALARM_1) or by alarmSet(URTCLIB_ALARM_TYPE_1_NONE, ...),
\* clears bit 0 (A1IE) and leaves bit 1 (A2IE), bit 2 (INTCN) and every other
\* bit of the control byte as it was.
C8_DisableAlarm1Control ==
  [][(IsCall("alarmDisable", URTCLIB_ALARM_1)
        \/ IsCall("alarmSet", URTCLIB_ALARM_TYPE_1_NONE))
       => /\ regs'[REG_CONTROL] = ClearBit(regs[REG_CONTROL], 0)
          /\ Bit(regs'[REG_CONTROL], 0) = 0
          /\ \A i \in 1..7 : Bit(regs'[REG_CONTROL], i) = Bit(regs[REG_CONTROL], i)]_vars

\* alarmDisable(URTCLIB_ALARM_1) has run on the control byte 0xFF: A1IE is
\* clear and the seven other bits are still set.
C8_Witness ==
  /\ last = Called("alarmDisable", URTCLIB_ALARM_1, TRUE)
  /\ regs[REG_CONTROL] = 254

\* C9: for every prior control byte, alarmDisable(URTCLIB_ALARM_2) and
\* alarmSet(URTCLIB_ALARM_TYPE_2_NONE, ...) each leave the control byte with
\* bit 1 (A2IE) cleared and bit 0 (A1IE), bit 2 (INTCN) and all other bits
\* unchanged.
C9_AsStated ==
  [][(IsCall("alarmDisable", URTCLIB_ALARM_2)
        \/ IsCall("alarmSet", URTCLIB_ALARM_TYPE_2_NONE))
       => regs'[REG_CONTROL] = ClearBit(regs[REG_CONTROL], 1)]_vars

\* The selector of the other alarm.
OtherAlarm(alarm) ==
  IF alarm = URTCLIB_ALARM_1 THEN URTCLIB_ALARM_2 ELSE URTCLIB_ALARM_1

\* C10: after alarmDisable(slot) returns true, for slot alarm 1 or alarm 2,
\* alarmMode(slot) reports that slot's disabled mode and the mirrored mode of
\* the other slot is what it was before the call.
C10_AsStated ==
  [][\A alarm \in {URTCLIB_ALARM_1, URTCLIB_ALARM_2} :
       (IsCall("alarmDisable", alarm) /\ last'.ret)
         => /\ alarmMode(alarm)' = alarm
            /\ alarmMode(OtherAlarm(alarm))' = alarmMode(OtherAlarm(alarm))]_vars

\* The enable bit of the slot a type byte names: bit 0 (A1IE) or bit 1 (A2IE).
EnableBit(type) == IF And8(type, 128) = 0 THEN 0 ELSE 1

\* C11: for every prior control byte c and every defined trigger type,
\* alarmSet leaves the control byte equal to c with bit 2 (INTCN) and the
\* slot's own enable bit set (bit 0 for slot 1, bit 1 for slot 2) and every
\* other bit, the other slot's enable bit included, unchanged.
C11_ArmSetsOwnEnableBits ==
  [][\A type \in TriggerTypes :
       IsCall("alarmSet", type)
         => /\ Bit(regs'[REG_CONTROL], 2) = 1
            /\ Bit(regs'[REG_CONTROL], EnableBit(type)) = 1
            /\ \A i \in (0..7) \ {2, EnableBit(type)} :
                  Bit(regs'[REG_CONTROL], i) = Bit(regs[REG_CONTROL], i)]_vars

\* Slot 2 has been armed on a control byte whose A1IE bit was clear: INTCN
\* and A2IE are set, A1IE is still clear and bits 3..7 are still set.
C11_Witness ==
  /\ last = Called("alarmSet", URTCLIB_ALARM_TYPE_2_FIXED_HM, TRUE)
  /\ regs[REG_CONTROL] = 254

\* C12: when alarmSet with a defined trigger type returns true and the mirror
\* held a running square-wave rate before the call, sqwgMode() reports
\* URTCLIB_SQWG_OFF_1 afterwards; right after an alarm is armed the mirror
\* never reports a running rate.
C12_ArmTurnsWaveOff ==
  [][\A type \in TriggerTypes :
       (IsCall("alarmSet", type) /\ last'.ret)
         => /\ sqwgMode \in RateModes => sqwgMode' = URTCLIB_SQWG_OFF_1
            /\ sqwgMode' \notin RateModes]_vars

\* Alarm 1 has been armed while the mirror held the 1024 Hz rate.
C12_Witness ==
  /\ last.op = "alarmSet" /\ last.arg = URTCLIB_ALARM_TYPE_1_FIXED_HMS /\ last.ret
  /\ last.was = URTCLIB_SQWG_1024H
  /\ sqwgMode = URTCLIB_SQWG_OFF_1
  /\ alarmMode(URTCLIB_ALARM_1) = URTCLIB_ALARM_TYPE_1_FIXED_HMS

\* The five modes sqwgSetMode has a mask row for.
SupportedModes == RateModes \cup {URTCLIB_SQWG_OFF_1}

\* C13: sqwgSetMode with a mode outside the five supported ones (off keep
\* high, 1Hz, 1024Hz, 4096Hz, 8192Hz) returns false, writes no register and
\* leaves the mirrored wave mode and alarm modes unchanged; with one of the
\* five it returns true.
C13_UnsupportedModeNoOp ==
  [][\A mode \in SqwgModes :
       IsCall("sqwgSetMode", mode)
         => IF mode \in SupportedModes
            THEN last'.ret
            ELSE ~last'.ret /\ regs' = regs /\ mirror' = mirror]_vars

\* sqwgSetMode(32768 Hz) has been refused while the mirror held the 1 Hz rate
\* and an armed alarm.
C13_Witness ==
  /\ last = Called("sqwgSetMode", URTCLIB_SQWG_32768H, FALSE)
  /\ sqwgMode = URTCLIB_SQWG_1H
  /\ SomeAlarmArmed

\* C14: alarmSet with a type byte that is none of the defined
\* URTCLIB_ALARM_TYPE_* values returns false, writes no register and leaves
\* the mirror unchanged.
C14_AsStated ==
  [][\A type \in UndefinedTypes :
       IsCall("alarmSet", type)
         => ~last'.ret /\ regs' = regs /\ mirror' = mirror]_vars

\* The rate code in RS1/RS0 of each running rate.
RateCode(mode) ==
  CASE mode = URTCLIB_SQWG_1H -> 0
    [] mode = URTCLIB_SQWG_1024H -> 1
    [] mode = URTCLIB_SQWG_4096H -> 2
    [] mode = URTCLIB_SQWG_8192H -> 3

\* C23: for every prior control byte c, sqwgSetMode with a running rate
\* (1Hz, 1024Hz, 4096Hz, 8192Hz) leaves the control byte with INTCN (bit 2)
\* cleared, RS1/RS0 (bits 4, 3) equal to the rate code 00, 01, 10, 11 and
\* bits 0, 1, 5, 6, 7 equal to c; sqwgSetMode(URTCLIB_SQWG_OFF_1) sets INTCN
\* and leaves every other bit equal to c.
C23_SqwgMaskTable ==
  [][/\ \A mode \in RateModes :
          IsCall("sqwgSetMode", mode)
            => /\ Bit(regs'[REG_CONTROL], 2) = 0
               /\ 2 * Bit(regs'[REG_CONTROL], 4) + Bit(regs'[REG_CONTROL], 3)
                    = RateCode(mode)
               /\ \A i \in {0, 1, 5, 6, 7} :
                     Bit(regs'[REG_CONTROL], i) = Bit(regs[REG_CONTROL], i)
     /\ IsCall("sqwgSetMode", URTCLIB_SQWG_OFF_1)
          => /\ Bit(regs'[REG_CONTROL], 2) = 1
             /\ \A i \in (0..7) \ {2} :
                   Bit(regs'[REG_CONTROL], i) = Bit(regs[REG_CONTROL], i)]_vars

\* The 1024 Hz rate has been selected on a control byte with bits 0, 1, 5, 6
\* and 7 set: INTCN and RS1 are clear, RS0 is set, the five others still set.
C23_Witness ==
  /\ last.op = "sqwgSetMode" /\ last.arg = URTCLIB_SQWG_1024H /\ last.ret
  /\ regs[REG_CONTROL] = 235
  /\ mirror.sqwg_mode = URTCLIB_SQWG_1024H

\* The BCD code of a number below 100.
BcdOf(x) == 16 * (x \div 10) + (x % 10)

\* C26: for alarm 1 with type byte T and an in-range time, alarmSet writes
\* 0x07 = BCD(second) with bit 7 = T bit 0, 0x08 = BCD(minute) with bit 7 =
\* T bit 1, 0x09 = BCD(hour) with bit 7 = T bit 2, 0x0A = BCD(day) with bit 7
\* = T bit 3 and bit 6 = T bit 4; for alarm 2 it writes the same minute, hour
\* and day bytes at 0x0B..0x0D and no seconds byte; bit 7 of T is in none of
\* the bytes and the registers of the other slot are left as they were.
C26_AlarmRegisterEncoding ==
  [][\A T \in TriggerTypes :
       IsCall("alarmSet", T)
         => IF Bit(T, 7) = 0
            THEN /\ regs'[7] = BcdOf(mirror'.a1_second) + 128 * Bit(T, 0)
                 /\ regs'[8] = BcdOf(mirror'.a1_minute) + 128 * Bit(T, 1)
                 /\ regs'[9] = BcdOf(mirror'.a1_hour) + 128 * Bit(T, 2)
                 /\ regs'[10] = BcdOf(mirror'.a1_day_dow) + 128 * Bit(T, 3)
                                  + 64 * Bit(T, 4)
                 /\ \A a \in 11..13 : regs'[a] = regs[a]
                 /\ <<mirror'.a1_second, mirror'.a1_minute, mirror'.a1_hour,
                      mirror'.a1_day_dow>> \in AlarmTimes \cup EncodingTimes
            ELSE /\ regs'[11] = BcdOf(mirror'.a2_minute) + 128 * Bit(T, 1)
                 /\ regs'[12] = BcdOf(mirror'.a2_hour) + 128 * Bit(T, 2)
                 /\ regs'[13] = BcdOf(mirror'.a2_day_dow) + 128 * Bit(T, 3)
                                  + 64 * Bit(T, 4)
                 /\ \A a \in 7..10 : regs'[a] = regs[a]]_vars

\* Alarm 1 has been armed for every second (all four mask bits set) with the
\* time 59, 59, 23, 31: the registers hold 0x59, 0x59, 0x23 and 0x31, each
\* with bit 7 set.
C26_Witness ==
  /\ last = Called("alarmSet", URTCLIB_ALARM_TYPE_1_ALL_S, TRUE)
  /\ mirror.a1_second = 59
  /\ <<regs[7], regs[8], regs[9], regs[10]>> = <<217, 217, 163, 177>>
  /\ <<regs[11], regs[12], regs[13]>> = <<0, 0, 0>>

(***************************************************************************)
(* Properties of the status-byte calls                                     *)
(***************************************************************************)
\* Every register but the one at addr is as it was.
OtherRegistersKept(addr) == \A a \in Registers \ {addr} : regs'[a] = regs[a]

\* C15: lostPower() returns true exactly when bit 7 of the status byte is set
\* and modifies no register; lostPowerClear() writes the status byte back with
\* bit 7 cleared and bit 0, bit 1 and all other bits unchanged, so that a
\* lostPower() call right after lostPowerClear() returns false.
C15_LostPower ==
  [][/\ IsCall("lostPower", 0)
          => /\ last'.ret = (Bit(regs[REG_STATUS], 7) = 1)
             /\ regs' = regs
             /\ last.op = "lostPowerClear" => ~last'.ret
     /\ IsCall("lostPowerClear", 0)
          => /\ regs'[REG_STATUS] = ClearBit(regs[REG_STATUS], 7)
             /\ Bit(regs'[REG_STATUS], 7) = 0
             /\ \A i \in 0..6 : Bit(regs'[REG_STATUS], i) = Bit(regs[REG_STATUS], i)
             /\ OtherRegistersKept(REG_STATUS)]_vars

\* lostPowerClear() has run on a status byte with both alarm flags set:
\* bit 7 is clear and the seven other bits are still set.
C15_Witness ==
  /\ last = Called("lostPowerClear", 0, TRUE)
  /\ regs[REG_STATUS] = 127

\* The flag bit of an alarm selector: bit 0 (A1F) or bit 1 (A2F).
FlagBit(alarm) == IF alarm = URTCLIB_ALARM_1 THEN 0 ELSE 1

\* C16: for every prior status byte, alarmClearFlag(slot) clears that slot's
\* flag bit (bit 0 for alarm 1, bit 1 for alarm 2) and leaves the other
\* alarm's flag, the lost-power bit 7 and all remaining bits of the status
\* byte unchanged; the control byte is not written.
C16_ClearOwnFlag ==
  [][\A alarm \in {URTCLIB_ALARM_1, URTCLIB_ALARM_2} :
       IsCall("alarmClearFlag", alarm)
         => /\ regs'[REG_STATUS] = ClearBit(regs[REG_STATUS], FlagBit(alarm))
            /\ Bit(regs'[REG_STATUS], FlagBit(alarm)) = 0
            /\ \A i \in (0..7) \ {FlagBit(alarm)} :
                  Bit(regs'[REG_STATUS], i) = Bit(regs[REG_STATUS], i)
            /\ OtherRegistersKept(REG_STATUS)]_vars

\* alarmClearFlag(URTCLIB_ALARM_2) has run with every status bit set: only
\* A2F is clear.
C16_Witness ==
  /\ last = Called("alarmClearFlag", URTCLIB_ALARM_2, TRUE)
  /\ regs[REG_STATUS] = 253

(***************************************************************************)
(* Properties of now and adjust                                            *)
(***************************************************************************)
\* The two BCD digits of a byte are decimal digits.
IsBcd(b) == b \div 16 <= 9 /\ b % 16 <= 9

\* Registers 0x00, 0x01, 0x02, 0x04, 0x05, 0x06 hold the BCD encoding of a
\* valid time (bit 7 of the seconds register aside).
RegsHoldValidTime ==
  /\ \A a \in {1, 2, 4, 5, 6} : IsBcd(regs[a])
  /\ IsBcd(And8(regs[0], 127))
  /\ bcd2bin(And8(regs[0], 127)) <= 59 /\ bcd2bin(regs[1]) <= 59
  /\ bcd2bin(regs[2]) <= 23
  /\ <<bcd2bin(regs[6]), bcd2bin(regs[5]), bcd2bin(regs[4])>> \in ValidDates

\* C17: after now() completes against registers 0x00..0x06 holding the BCD
\* encoding of a valid time, the accessors second(), minute(), hour(), day(),
\* month() and year() return the decoded second, minute, hour, day, month and
\* year offset of that time.
C17_AsStated ==
  (last.op = "now" /\ RegsHoldValidTime)
    => /\ second = bcd2bin(And8(regs[0], 127))
       /\ minute = bcd2bin(regs[1])
       /\ hour = bcd2bin(regs[2])
       /\ day = bcd2bin(regs[4])
       /\ month = bcd2bin(regs[5])
       /\ year = bcd2bin(regs[6])

\* C18: for every valid Calendar Value V (yearOffset 0..99), adjust(V) writes
\* registers 0x00..0x06 as BCD(second), BCD(minute), BCD(hour), 0, BCD(day),
\* BCD(month), BCD(yearOffset), and a following now() with the registers
\* unchanged returns a Calendar Value equal to V field for field; now()
\* ignores bit 7 of the seconds register and the weekday register.
C18_AsStated ==
  /\ cal.pc \in {"adjust", "readback"}
       => [a \in 0..6 |-> regs[a]] =
            [a \in 0..6 |->
               <<bin2bcd(cal.V.ss), bin2bcd(cal.V.mm), bin2bcd(cal.V.hh), 0,
                 bin2bcd(cal.V.d), bin2bcd(cal.V.m), bin2bcd(cal.V.yOff)>>[a + 1]]
  /\ cal.pc = "readback" => cal.W = cal.V
  /\ cal.pc = "now" => cal.W = DateTime(2024, 3, 15, 13, 45, 30)

(***************************************************************************)
(* Properties of a failing bus                                             *)
(***************************************************************************)
\* C19: if a bus transaction inside alarmSet, alarmDisable or sqwgSetMode
\* fails (endTransmission reports failure or the read returns no byte), the
\* call reports failure and the mirror (alarm modes and fields, square-wave
\* mode) is identical to its value before the call.
C19_AsStated ==
  [][(last'.op \in {"alarmSet", "alarmDisable", "sqwgSetMode"}
        /\ last'.bus # BusUp)
       => ~last'.ret /\ mirror' = mirror]_vars

(***************************************************************************)
(* Properties of the bus transactions of one call                          *)
(***************************************************************************)
\* A logged transaction that stores a data byte in register a.
WritesTo(e, a) == e.kind = "write" /\ e.addr <= a /\ a < e.addr + Len(e.bytes)

\* The transactions of the call so far that write the control byte, and
\* those that write an alarm register.
ControlWrites == {i \in DOMAIN last.log : WritesTo(last.log[i], REG_CONTROL)}

AlarmWrites ==
  {i \in DOMAIN last.log : \E a \in REG_ALARM1..(REG_CONTROL - 1) : WritesTo(last.log[i], a)}

WireReturned == last.op # "none" /\ last.todo = <<>>

\* C22: the driver has no memory window (offset = 0xff), so every address is
\* outside it: ramWrite returns false and ramRead returns 0xFF, and the call
\* makes no bus transaction, so that no register, in particular none of
\* 0x00..0x0F, is read or written; nothing wraps round to a register.
C22_RamAccessFails ==
  last.op \in {"ramRead", "ramWrite"} =>
    /\ last.log = <<>>
    /\ regs = last.entry.regs
    /\ mirror = last.entry.mirror
    /\ (last.todo = <<>> /\ last.op = "ramRead") => last.ret = 255
    /\ (last.todo = <<>> /\ last.op = "ramWrite") => last.ret = FALSE

\* ramWrite(0xF1, 0xA5) has returned false; with the DS3232 offset 0x14 the
\* address would wrap round to the month register 0x05.
C22_Witness ==
  /\ WireReturned
  /\ last.op = "ramWrite" /\ last.args = <<241, 165>>
  /\ last.ret = FALSE
  /\ last.log = <<>>
  /\ regs[5] = 3

\* The AND mask and OR mask each call applies to the control byte.
ControlMasks(op, arg) ==
  CASE op = "alarmSet" /\ arg = URTCLIB_ALARM_TYPE_1_NONE -> <<254, 0>>
    [] op = "alarmSet" /\ arg = URTCLIB_ALARM_TYPE_2_NONE -> <<253, 0>>
    [] op = "alarmSet" /\ arg \notin {URTCLIB_ALARM_TYPE_1_NONE, URTCLIB_ALARM_TYPE_2_NONE}
         -> IF Bit(arg, 7) = 0 THEN <<255, 5>> ELSE <<255, 6>>
    [] op = "alarmDisable" -> <<254, 0>>
    [] op = "sqwgSetMode" /\ arg = URTCLIB_SQWG_OFF_1 -> <<255, 4>>
    [] op = "sqwgSetMode" /\ arg = URTCLIB_SQWG_1H -> <<227, 0>>
    [] op = "sqwgSetMode" /\ arg = URTCLIB_SQWG_1024H -> <<235, 8>>
    [] op = "sqwgSetMode" /\ arg = URTCLIB_SQWG_4096H -> <<243, 16>>
    [] op = "sqwgSetMode" /\ arg = URTCLIB_SQWG_8192H -> <<251, 24>>

\* C24: in each call of alarmSet, alarmDisable and sqwgSetMode there is at
\* most one write to register 0x0E; the transaction just before it in the
\* same call is a read of 0x0E, and the byte written is (byte read AND a
\* mask) OR a mask, the two masks fixed by the function and its argument;
\* the control byte never differs from its value at the call without such a
\* write.
C24_SingleReadModifyWrite ==
  /\ last.op \in {"alarmSet", "alarmDisable", "sqwgSetMode"} =>
       /\ Cardinality(ControlWrites) <= 1
       /\ \A i \in ControlWrites :
            /\ i > 1
            /\ last.log[i - 1].kind = "read"
            /\ last.log[i - 1].addr = REG_CONTROL
            /\ last.log[i - 1].bytes = <<last.entry.regs[REG_CONTROL]>>
            /\ last.log[i].addr = REG_CONTROL
            /\ LET masks == ControlMasks(last.op, last.args[1])
               IN last.log[i].bytes
                    = <<Or8(And8(last.log[i - 1].bytes[1], masks[1]), masks[2])>>
  /\ last.op # "none" =>
       (regs[REG_CONTROL] # last.entry.regs[REG_CONTROL] => ControlWrites # {})

\* sqwgSetMode(URTCLIB_SQWG_4096H) has returned on the control byte 0x1C: it
\* read 0x1C and wrote 0x10.
C24_Witness ==
  /\ WireReturned
  /\ last.op = "sqwgSetMode" /\ last.args = <<URTCLIB_SQWG_4096H>>
  /\ last.log = <<[kind |-> "read", addr |-> REG_CONTROL, bytes |-> <<28>>],
                  [kind |-> "write", addr |-> REG_CONTROL, bytes |-> <<16>>]>>
  /\ regs[REG_CONTROL] = 16

\* C25: in alarmSet with a type other than the two disabled ones, the
\* slot's alarm registers (0x07..0x0A or 0x0B..0x0D) are written in one
\* transaction, the first of the call, before the control byte is read and
\* rewritten; the mirror is not assigned before the control byte is written;
\* and the slot's enable bit is not newly set while the alarm registers hold
\* anything but the new alarm time.
C25_ArmOrdering ==
  (last.op = "alarmSet"
     /\ last.args[1] \notin {URTCLIB_ALARM_TYPE_1_NONE, URTCLIB_ALARM_TYPE_2_NONE})
    => LET type == last.args[1]
           base == IF Bit(type, 7) = 0 THEN REG_ALARM1 ELSE REG_ALARM2
           bytes == alarmSetBytes(type, last.args[2], last.args[3],
                                  last.args[4], last.args[5])
           armed == [kind |-> "write", addr |-> base, bytes |-> bytes]
       IN /\ Len(bytes) = IF Bit(type, 7) = 0 THEN 4 ELSE 3
          /\ Cardinality(AlarmWrites) <= 1
          /\ \A i \in DOMAIN last.log :
               last.log[i].addr = REG_CONTROL => (i > 1 /\ last.log[1] = armed)
          /\ mirror # last.entry.mirror => ControlWrites # {}
          /\ (/\ Bit(regs[REG_CONTROL], EnableBit(type)) = 1
              /\ Bit(last.entry.regs[REG_CONTROL], EnableBit(type)) = 0)
               => \A k \in 1..Len(bytes) : regs[base + k - 1] = bytes[k]
          /\ last.todo = <<>>
               => /\ Len(last.log) = 3
                  /\ last.log[1] = armed
                  /\ last.log[2].kind = "read"
                  /\ ControlWrites = {3}
                  /\ mirror = alarmSetMirror(type, last.args[2], last.args[3],
                                last.args[4], last.args[5], last.entry.mirror)

\* Alarm 1 has been armed on a chip whose A1IE bit was clear and whose alarm
\* registers held an earlier time: the registers hold the new time, A1IE is
\* set and the mirror has the new type.
C25_Witness ==
  /\ WireReturned
  /\ last.op = "alarmSet"
  /\ last.args = <<URTCLIB_ALARM_TYPE_1_ALL_S, 59, 59, 23, 31>>
  /\ last.entry.regs[REG_ALARM1] = 16
  /\ Bit(last.entry.regs[REG_CONTROL], 0) = 0
  /\ <<regs[7], regs[8], regs[9], regs[10]>> = <<217, 217, 163, 177>>
  /\ Bit(regs[REG_CONTROL], 0) = 1
  /\ last.entry.mirror.a1_mode = URTCLIB_ALARM_TYPE_1_NONE
  /\ mirror.a1_mode = URTCLIB_ALARM_TYPE_1_ALL_S

\* C28: now(), adjust(), lostPower(), lostPowerClear(), alarmClearFlag(), the
\* alarm, wave and time accessors, ramRead() and ramWrite() make no write to
\* register 0x0E and leave the control byte as it was; adjust() also makes no
\* write to 0x0F and leaves the status byte, bit 7 included, as it was.
C28_ControlByteOwners ==
  /\ last.op \notin {"none", "alarmSet", "alarmDisable", "sqwgSetMode"} =>
       /\ ControlWrites = {}
       /\ regs[REG_CONTROL] = last.entry.regs[REG_CONTROL]
  /\ last.op = "adjust" =>
       /\ \A i \in DOMAIN last.log : ~WritesTo(last.log[i], REG_STATUS)
       /\ regs[REG_STATUS] = last.entry.regs[REG_STATUS]

\* adjust(2099-12-31 23:59:59) has returned: the seconds register holds 0x59,
\* the control byte is still 0xE3 and the status byte still 0x88.
C28_Witness ==
  /\ WireReturned
  /\ last.op = "adjust"
  /\ Len(last.log) = 2
  /\ regs[0] = 89
  /\ regs[REG_CONTROL] = 227
  /\ regs[REG_STATUS] = 136

\* C30: with a selector other than URTCLIB_ALARM_1 and URTCLIB_ALARM_2,
\* alarmDisable and alarmClearFlag return false, make no bus transaction and
\* change no register and no member, and alarmMode, alarmSecond,
\* alarmMinute, alarmHour and alarmDayDow return 0xFF; with either valid
\* selector alarmDisable and alarmClearFlag return true.
C30_InvalidSelector ==
  /\ last.op \in {"alarmDisable", "alarmClearFlag"} =>
       IF last.args[1] \in {URTCLIB_ALARM_1, URTCLIB_ALARM_2}
       THEN last.todo = <<>> => last.ret = TRUE
       ELSE /\ last.log = <<>>
            /\ regs = last.entry.regs
            /\ mirror = last.entry.mirror
            /\ last.todo = <<>> => last.ret = FALSE
  /\ (last.op \in AlarmGetters
        /\ last.args[1] \notin {URTCLIB_ALARM_1, URTCLIB_ALARM_2})
       => /\ last.log = <<>>
          /\ last.todo = <<>> => last.ret = 255

\* alarmDisable(1) has returned false on an object with both alarms armed:
\* alarm 1 is still armed in the mirror and in the control byte.
C30_Witness ==
  /\ WireReturned
  /\ last.op = "alarmDisable" /\ last.args = <<1>>
  /\ last.ret = FALSE
  /\ last.log = <<>>
  /\ mirror.a1_mode = URTCLIB_ALARM_TYPE_1_FIXED_DHMS
  /\ Bit(regs[REG_CONTROL], 0) = 1

(***************************************************************************)
(* Properties of the mirror against the control byte                       *)
(***************************************************************************)
\* The mirrored wave mode is a running rate exactly when INTCN is clear, and
\* then RS1/RS0 hold the code of that rate.
PinAgrees ==
  /\ (sqwgMode \in RateModes) = (Bit(regs[REG_CONTROL], 2) = 0)
  /\ sqwgMode \in RateModes
       => 2 * Bit(regs[REG_CONTROL], 4) + Bit(regs[REG_CONTROL], 3)
            = RateCode(sqwgMode)

\* The step is a successful sqwgSetMode or an alarmSet that arms an alarm.
PinSet ==
  /\ last'.ret
  /\ \/ last'.op = "sqwgSetMode"
     \/ /\ last'.op = "alarmSet"
        /\ last'.arg \notin {URTCLIB_ALARM_TYPE_1_NONE, URTCLIB_ALARM_TYPE_2_NONE}

\* C31: a successful sqwgSetMode and an arming alarmSet leave sqwgMode()
\* reporting a running rate exactly when INTCN (bit 2) of the control byte is
\* 0, the rate code then equal to RS1/RS0, and from a state where that holds
\* every call of alarmSet, alarmDisable, alarmClearFlag, lostPowerClear and
\* sqwgSetMode leads to a state where it holds; so it holds in every state
\* after the first such call.
C31_MirrorAgreesWithPin ==
  [][(PinSet \/ PinAgrees) => PinAgrees']_vars

\* On a chip found with INTCN clear the 1024 Hz rate was selected; after
\* lostPowerClear() the mirror still reports it, INTCN is clear and RS = 01.
C31_Witness ==
  /\ last.op = "lostPowerClear"
  /\ sqwgMode = URTCLIB_SQWG_1024H
  /\ And8(regs[REG_CONTROL], 28) = 8
  /\ And8(regs[REG_CONTROL], 224) = 224
  /\ And8(regs[REG_STATUS], 128) = 0

\* C32: starting from a control byte with A1IE and A2IE clear and the
\* default mirror, in every state reached by alarmSet, alarmDisable and
\* sqwgSetMode calls, whenever alarmMode(slot) reports the slot's disabled
\* mode the slot's enable bit of the control byte (bit 0 for alarm 1, bit 1
\* for alarm 2) is 0.
C32_AsStated ==
  /\ alarmMode(URTCLIB_ALARM_1) = URTCLIB_ALARM_TYPE_1_NONE
       => Bit(regs[REG_CONTROL], 0) = 0
  /\ alarmMode(URTCLIB_ALARM_2) = URTCLIB_ALARM_TYPE_2_NONE
       => Bit(regs[REG_CONTROL], 1) = 0

====
